---- MODULE Spec2Model ----
(***************************************************************************)
(* binary-pack-js: the BinaryPack envelope codec (pack / unpack), the      *)
(* EncryptionMethod dispatcher, the method registry and the three byte     *)
(* transforms (XOR, AES-like, Caesar), with the runtime conversions they   *)
(* rest on (TextEncoder / TextDecoder, JSON.stringify / JSON.parse).       *)
(*                                                                         *)
(* JavaScript strings are sequences of UTF-16 code units (0..65535);       *)
(* buffers are sequences of bytes (0..255), index 1 holding offset 0.      *)
(*                                                                         *)
(* Notation: CHOOSE r \in {F(x) : x \in {e}} : TRUE is F(e), written so    *)
(* that e is evaluated once and x names its value, as a const does.        *)
(***************************************************************************)
EXTENDS Integers, Sequences, FiniteSets, TLC

(***************************************************************************)
(* Arithmetic of the JavaScript runtime.                                   *)
(***************************************************************************)

\* The JavaScript remainder a % b for b > 0: the result takes the sign of a.
JsRem(a, b) == IF a >= 0 THEN a % b ELSE 0 - ((0 - a) % b)

\* Bitwise XOR of two naturals below 2^n.
RECURSIVE BitXor(_, _, _)
BitXor(a, b, n) ==
    IF n = 0 THEN 0
    ELSE (((a % 2) + (b % 2)) % 2) + 2 * BitXor(a \div 2, b \div 2, n - 1)

\* The XOR of two 4-bit numbers, tabulated.
Xor4 == [a \in 0..15 |-> [b \in 0..15 |-> BitXor(a, b, 4)]]

\* a ^ b for two bytes: the XOR of the high halves and of the low halves.
ByteXor(a, b) == Xor4[a \div 16][b \div 16] * 16 + Xor4[a % 16][b % 16]

\* x ^ s for an int32 x and a byte s: in two's complement the low byte of x
\* is x modulo 256 and the XOR leaves the upper 24 bits of x as they are.
JsXorByte(x, s) == (x - (x % 256)) + ByteXor(x % 256, s)

\* The store of a number into a Uint8Array element (ToUint8: modulo 2^8).
ToUint8(x) == x % 256

(***************************************************************************)
(* TextEncoder.encode: UTF-16 code units to UTF-8 bytes.  A surrogate pair *)
(* is one code point; a lone surrogate is encoded as U+FFFD.               *)
(***************************************************************************)
IsHighSurrogate(c) == c >= 55296 /\ c <= 56319
IsLowSurrogate(c) == c >= 56320 /\ c <= 57343

Utf8OfCodePoint(cp) ==
    IF cp < 128 THEN <<cp>>
    ELSE IF cp < 2048 THEN <<192 + (cp \div 64), 128 + (cp % 64)>>
    ELSE IF cp < 65536 THEN
        <<224 + (cp \div 4096), 128 + ((cp \div 64) % 64), 128 + (cp % 64)>>
    ELSE <<240 + (cp \div 262144), 128 + ((cp \div 4096) % 64),
           128 + ((cp \div 64) % 64), 128 + (cp % 64)>>

RECURSIVE Utf8EncodeFrom(_, _)
Utf8EncodeFrom(s, i) ==
    IF i > Len(s) THEN <<>>
    ELSE IF IsHighSurrogate(s[i]) /\ i < Len(s) /\ IsLowSurrogate(s[i + 1])
    THEN Utf8OfCodePoint(65536 + (s[i] - 55296) * 1024 + (s[i + 1] - 56320))
             \o Utf8EncodeFrom(s, i + 2)
    ELSE IF IsHighSurrogate(s[i]) \/ IsLowSurrogate(s[i])
    THEN Utf8OfCodePoint(65533) \o Utf8EncodeFrom(s, i + 1)
    ELSE Utf8OfCodePoint(s[i]) \o Utf8EncodeFrom(s, i + 1)

\* where a long string is cut in two for encoding: in the middle, and one
\* unit earlier when the middle would part a surrogate pair
Utf8Cut(s) ==
    LET m == Len(s) \div 2
    IN  IF IsHighSurrogate(s[m]) /\ IsLowSurrogate(s[m + 1]) THEN m - 1 ELSE m

\* the encoding of a string is the encoding of its parts in order; a long
\* string is encoded part by part
RECURSIVE Utf8EncodeParts(_)
Utf8EncodeParts(s) ==
    IF Len(s) <= 16 THEN Utf8EncodeFrom(s, 1)
    ELSE LET m == Utf8Cut(s)
         IN  Utf8EncodeParts(SubSeq(s, 1, m))
                 \o Utf8EncodeParts(SubSeq(s, m + 1, Len(s)))

TextEncode(s) == CHOOSE r \in {Utf8EncodeParts(x) : x \in {s}} : TRUE

(***************************************************************************)
(* TextDecoder.decode (utf-8, not fatal, BOM not ignored): the WHATWG      *)
(* UTF-8 decoder.  A malformed sequence yields U+FFFD; a byte that breaks  *)
(* a sequence is decoded again as the start of the next one; a leading     *)
(* byte order mark is dropped.                                             *)
(***************************************************************************)
Utf16OfCodePoint(cp) ==
    IF cp < 65536 THEN <<cp>>
    ELSE <<55296 + ((cp - 65536) \div 1024), 56320 + ((cp - 65536) % 1024)>>

\* need: continuation bytes still expected; cp: the code point so far;
\* lower..upper: the range allowed for the next continuation byte.
RECURSIVE Utf8DecodeFrom(_, _, _, _, _, _)
Utf8DecodeFrom(b, i, need, cp, lower, upper) ==
    IF i > Len(b) THEN (IF need > 0 THEN <<65533>> ELSE <<>>)
    ELSE LET x == b[i] IN
      IF need = 0 THEN
        IF x < 128 THEN <<x>> \o Utf8DecodeFrom(b, i + 1, 0, 0, 128, 191)
        ELSE IF x >= 194 /\ x <= 223
        THEN Utf8DecodeFrom(b, i + 1, 1, x % 32, 128, 191)
        ELSE IF x >= 224 /\ x <= 239
        THEN Utf8DecodeFrom(b, i + 1, 2, x % 16,
                            IF x = 224 THEN 160 ELSE 128,
                            IF x = 237 THEN 159 ELSE 191)
        ELSE IF x >= 240 /\ x <= 244
        THEN Utf8DecodeFrom(b, i + 1, 3, x % 8,
                            IF x = 240 THEN 144 ELSE 128,
                            IF x = 244 THEN 143 ELSE 191)
        ELSE <<65533>> \o Utf8DecodeFrom(b, i + 1, 0, 0, 128, 191)
      ELSE IF x < lower \/ x > upper
      THEN <<65533>> \o Utf8DecodeFrom(b, i, 0, 0, 128, 191)
      ELSE IF need = 1
      THEN Utf16OfCodePoint(cp * 64 + (x % 64))
               \o Utf8DecodeFrom(b, i + 1, 0, 0, 128, 191)
      ELSE Utf8DecodeFrom(b, i + 1, need - 1, cp * 64 + (x % 64), 128, 191)

\* a decoder that takes every byte for a character (Latin-1, not UTF-8)
Latin1Decode(b) == b

TextDecode(b) ==
    CHOOSE r \in {IF Len(s) > 0 /\ s[1] = 65279 THEN Tail(s) ELSE s :
                    s \in {Utf8DecodeFrom(x, 1, 0, 0, 128, 191) : x \in {b}}} : TRUE

(***************************************************************************)
(* Hash.secret.  The accumulator is an int32; it is kept here as the two   *)
(* 16-bit halves of its unsigned 32-bit pattern, [hi, lo].                 *)
(***************************************************************************)
Word(hi, lo) == [hi |-> hi, lo |-> lo]

\* hash << 5
Shl5(w) == Word((w.hi * 32 + ((w.lo * 32) \div 65536)) % 65536,
                (w.lo * 32) % 65536)

\* a - b, modulo 2^32
Sub32(a, b) ==
    LET borrow == IF a.lo < b.lo THEN 1 ELSE 0
    IN  Word((a.hi - b.hi - borrow) % 65536, (a.lo - b.lo) % 65536)

\* a + c for a code unit c, modulo 2^32
Add32(a, c) ==
    Word((a.hi + ((a.lo + c) \div 65536)) % 65536, (a.lo + c) % 65536)

\* a step that multiplies by 32
HashStepTimes32(h, c) == Add32(Shl5(h), c)

\* hash = ((hash << 5) - hash) + secret.charCodeAt(i); hash |= 0
HashStep(h, c) == Add32(Sub32(Shl5(h), h), c)

RECURSIVE HashLoop(_, _, _)
HashLoop(s, i, h) ==
    IF i > Len(s) THEN h
    ELSE CHOOSE r \in {HashLoop(s, i + 1, x) : x \in {HashStep(h, s[i])}} : TRUE

\* Math.abs of the int32 whose pattern is w: a pattern with the top bit set
\* is a negative number, whose magnitude is 2^32 minus the pattern.
Abs32(w) == IF w.hi >= 32768 THEN Sub32(Word(0, 0), w) ELSE w

\* the loop over a long string, run over its first half and then, from
\* the accumulator so reached, over its second half
RECURSIVE HashLoopParts(_, _)
HashLoopParts(s, h) ==
    IF Len(s) <= 16 THEN HashLoop(s, 1, h)
    ELSE CHOOSE r \in {HashLoopParts(SubSeq(s, (Len(s) \div 2) + 1, Len(s)), x) :
                         x \in {HashLoopParts(SubSeq(s, 1, Len(s) \div 2), h)}} : TRUE

\* Hash.secret(secret) for a string
HashSecret(s) ==
    IF Len(s) = 0 THEN Word(0, 0)
    ELSE CHOOSE r \in {Abs32(h) : h \in {HashLoopParts(s, Word(0, 0))}} : TRUE

\* a shift of secretHash % 256
CaesarShiftMod256(s) == HashSecret(s).lo % 256

\* secretHash % 26, with 65536 % 26 = 16
CaesarShift(s) ==
    CHOOSE r \in {((h.hi % 26) * 16 + h.lo) % 26 : h \in {HashSecret(s)}} : TRUE

(***************************************************************************)
(* The three methods.  Each loop works in place on dataPart; its step i    *)
(* reads and writes dataPart[i] alone, so the array after the loop is the  *)
(* array of the steps' results.  data[j] here is dataPart[j - 1] there.    *)
(***************************************************************************)
\* null, as distinct from every string
Null == <<-1>>

\* TextEncoder.encode(secret): null is converted to the string "null"
SecretBytes(secret) ==
    IF secret = Null THEN <<110, 117, 108, 108>> ELSE TextEncode(secret)

\* secretBytes[j % secretBytes.length]; with an empty key the index is NaN,
\* the element undefined, and undefined is 0 under ^
KeyByte(k, j) == IF Len(k) = 0 THEN 0 ELSE k[(j % Len(k)) + 1]

\* for (let i = 0; i < dataPart.length; i++)
\*     dataPart[i] ^= secretBytes[i % secretBytes.length]
XOR_loop(k, data) ==
    <<>> \o [j \in 1..Len(data) |-> ToUint8(ByteXor(data[j], KeyByte(k, j - 1)))]

XOR_encrypt(secret, data) ==
    CHOOSE r \in {XOR_loop(k, d) : k \in {SecretBytes(secret)}, d \in {data}} : TRUE

\* a decrypt that leaves the data as they are
XOR_decryptNothing(secret, data) == data

\* decrypt(dataPart) { this.encrypt(dataPart) }
XOR_decrypt(secret, data) == XOR_encrypt(secret, data)

AES_rounds == 3

\* the encrypting loop with the key byte of the index alone, whatever
\* the round
AES_encryptLoopSameKeyByte(k, data, round) ==
    <<>> \o [j \in 1..Len(data) |->
               ToUint8(JsRem(ByteXor(data[j], KeyByte(k, j - 1))
                                 + round + (j - 1), 256))]

\* an encrypting loop that adds the byte before to every byte but the
\* first
AES_encryptLoopChained(k, data, round) ==
    <<>> \o [j \in 1..Len(data) |->
               ToUint8(JsRem(ByteXor(data[j], KeyByte(k, (j - 1) + round))
                                 + round + (j - 1)
                                 + (IF j = 1 THEN 0 ELSE data[j - 1]), 256))]

\* for (let i = 0; i < dataPart.length; i++)
\*     dataPart[i] = ((dataPart[i] ^ secretByte) + round + i) % 256
AES_encryptLoop(k, data, round) ==
    <<>> \o [j \in 1..Len(data) |->
               ToUint8(JsRem(ByteXor(data[j], KeyByte(k, (j - 1) + round))
                                 + round + (j - 1), 256))]

\* for (let round = 0; round < rounds; round++)
RECURSIVE AES_encryptRounds(_, _, _)
AES_encryptRounds(k, data, round) ==
    IF round >= AES_rounds THEN data
    ELSE CHOOSE r \in {AES_encryptRounds(k, d, round + 1) :
                         d \in {AES_encryptLoop(k, data, round)}} : TRUE

AES_encrypt(secret, data) ==
    CHOOSE r \in {AES_encryptRounds(k, d, 0) :
                    k \in {SecretBytes(secret)}, d \in {data}} : TRUE

\* the decrypting loop without the index in the subtraction
AES_decryptLoopWithoutIndex(k, data, round) ==
    <<>> \o [j \in 1..Len(data) |->
               ToUint8(JsXorByte(JsRem(data[j] - round + 256, 256),
                                 KeyByte(k, (j - 1) + round)))]

\* a decrypting loop that xors the magnitude of the remainder
AES_decryptLoopOfMagnitude(k, data, round) ==
    <<>> \o [j \in 1..Len(data) |->
               LET r == JsRem(data[j] - round - (j - 1) + 256, 256)
               IN  ToUint8(ByteXor(IF r < 0 THEN 0 - r ELSE r,
                                   KeyByte(k, (j - 1) + round)))]

\* for (let i = dataPart.length - 1; i >= 0; i--)
\*     dataPart[i] = ((dataPart[i] - round - i + 256) % 256) ^ secretByte
AES_decryptLoop(k, data, round) ==
    <<>> \o [j \in 1..Len(data) |->
               ToUint8(JsXorByte(JsRem(data[j] - round - (j - 1) + 256, 256),
                                 KeyByte(k, (j - 1) + round)))]

\* for (let round = rounds - 1; round >= 0; round--)
RECURSIVE AES_decryptRounds(_, _, _)
AES_decryptRounds(k, data, round) ==
    IF round < 0 THEN data
    ELSE CHOOSE r \in {AES_decryptRounds(k, d, round - 1) :
                         d \in {AES_decryptLoop(k, data, round)}} : TRUE

AES_decrypt(secret, data) ==
    CHOOSE r \in {AES_decryptRounds(k, d, AES_rounds - 1) :
                    k \in {SecretBytes(secret)}, d \in {data}} : TRUE

\* for (let i = 0; i < dataPart.length; i++)
\*     dataPart[i] = (dataPart[i] + shift) % 256
Caesar_encryptLoop(shift, data) ==
    <<>> \o [j \in 1..Len(data) |-> ToUint8(JsRem(data[j] + shift, 256))]

Caesar_encrypt(secret, data) ==
    CHOOSE r \in {Caesar_encryptLoop(shift, d) :
                    shift \in {CaesarShift(secret)}, d \in {data}} : TRUE

\* for (let i = 0; i < dataPart.length; i++)
\*     dataPart[i] = (dataPart[i] - shift + 256) % 256
Caesar_decryptLoop(shift, data) ==
    <<>> \o [j \in 1..Len(data) |-> ToUint8(JsRem(data[j] - shift + 256, 256))]

Caesar_decrypt(secret, data) ==
    CHOOSE r \in {Caesar_decryptLoop(shift, d) :
                    shift \in {CaesarShift(secret)}, d \in {data}} : TRUE

(***************************************************************************)
(* The registry of methods.                                                *)
(***************************************************************************)
\* a registry with the codes of aes-like and caesar exchanged
MethodsExchanged ==
    << [code |-> 1, name |-> "xor"],
       [code |-> 3, name |-> "aes-like"],
       [code |-> 2, name |-> "caesar"] >>

AvailableMethods ==
    << [code |-> 1, name |-> "xor"],
       [code |-> 2, name |-> "aes-like"],
       [code |-> 3, name |-> "caesar"] >>

\* Array.prototype.find: the first entry satisfying the test, or none
NoEntry == [code |-> 0, name |-> "<undefined>"]

\* a search by name that falls back on the first entry
FindByNameOrFirst(name) ==
    LET hits == {i \in 1..Len(AvailableMethods) : AvailableMethods[i].name = name}
    IN  AvailableMethods[IF hits = {} THEN 1
                         ELSE CHOOSE i \in hits : \A j \in hits : i <= j]

FindByName(name) ==
    LET hits == {i \in 1..Len(AvailableMethods) : AvailableMethods[i].name = name}
    IN  IF hits = {} THEN NoEntry
        ELSE AvailableMethods[CHOOSE i \in hits : \A j \in hits : i <= j]

FindByCode(code) ==
    LET hits == {i \in 1..Len(AvailableMethods) : AvailableMethods[i].code = code}
    IN  IF hits = {} THEN NoEntry
        ELSE AvailableMethods[CHOOSE i \in hits : \A j \in hits : i <= j]

\* null as a method name, as distinct from every string of the model
NullName == "<null>"

getEncryptionMethodCode(method) ==
    LET existMethod == FindByName(method) IN
    IF existMethod = NoEntry THEN 0 ELSE existMethod.code

\* a lookup that finds the last entry whatever the code
LastNameForAnyCode(methodCode) == AvailableMethods[Len(AvailableMethods)].name

getEncryptionMethodName(methodCode) ==
    LET existMethod == FindByCode(methodCode) IN
    IF existMethod = NoEntry THEN NullName ELSE existMethod.name

(***************************************************************************)
(* JSON values.  [t, v]: t the kind, v the content.                        *)
(*   null  <<>>          bool  TRUE / FALSE        num  an integer         *)
(*   str   code units    arr   sequence of values                          *)
(*   obj   sequence of [k |-> key, x |-> value] in property order          *)
(*   float a double that is no integer below 2^31 (JSON.parse only)        *)
(***************************************************************************)
JNull == [t |-> "null", v |-> <<>>]
JBool(b) == [t |-> "bool", v |-> b]
JNum(n) == [t |-> "num", v |-> n]
JStr(s) == [t |-> "str", v |-> s]
JArr(items) == [t |-> "arr", v |-> items]
JObj(props) == [t |-> "obj", v |-> props]
JFloat(d) == [t |-> "float", v |-> d]
Prop(k, x) == [k |-> k, x |-> x]

\* inside an object or an array, a reference back to an object or array
\* that contains it: the value is cyclic
JSelf == [t |-> "self", v |-> <<>>]

\* JSON.stringify throws a TypeError on a cyclic value
RECURSIVE StringifyThrows(_)
StringifyThrows(val) ==
    CASE val.t = "self" -> TRUE
      [] val.t = "arr" -> \E i \in 1..Len(val.v) : StringifyThrows(val.v[i])
      [] val.t = "obj" -> \E i \in 1..Len(val.v) : StringifyThrows(val.v[i].x)
      [] OTHER -> FALSE

(***************************************************************************)
(* JSON.stringify                                                          *)
(***************************************************************************)
HexDigit(d) == IF d < 10 THEN 48 + d ELSE 87 + d

\* \uXXXX, four lower-case hexadecimal digits
UnicodeEscape(c) ==
    <<92, 117, HexDigit(c \div 4096), HexDigit((c \div 256) % 16),
      HexDigit((c \div 16) % 16), HexDigit(c % 16)>>

RECURSIVE QuoteFrom(_, _)
QuoteFrom(s, i) ==
    IF i > Len(s) THEN <<>>
    ELSE LET c == s[i] IN
      IF IsHighSurrogate(c) /\ i < Len(s) /\ IsLowSurrogate(s[i + 1])
      THEN <<c, s[i + 1]>> \o QuoteFrom(s, i + 2)
      ELSE (CASE c = 34 -> <<92, 34>>
              [] c = 92 -> <<92, 92>>
              [] c = 8 -> <<92, 98>>
              [] c = 9 -> <<92, 116>>
              [] c = 10 -> <<92, 110>>
              [] c = 12 -> <<92, 102>>
              [] c = 13 -> <<92, 114>>
              [] OTHER -> IF c < 32 \/ IsHighSurrogate(c) \/ IsLowSurrogate(c)
                          THEN UnicodeEscape(c) ELSE <<c>>)
           \o QuoteFrom(s, i + 1)

QuoteJSONString(s) == <<34>> \o QuoteFrom(s, 1) \o <<34>>

RECURSIVE Digits(_)
Digits(n) == IF n < 10 THEN <<48 + n>> ELSE Digits(n \div 10) \o <<48 + (n % 10)>>

NumberToString(n) == IF n < 0 THEN <<45>> \o Digits(0 - n) ELSE Digits(n)

RECURSIVE JSONStringify(_)
RECURSIVE StringifyItems(_, _)
RECURSIVE StringifyProps(_, _)
StringifyItems(items, i) ==
    IF i > Len(items) THEN <<>>
    ELSE (IF i > 1 THEN <<44>> ELSE <<>>) \o JSONStringify(items[i])
             \o StringifyItems(items, i + 1)

StringifyProps(props, i) ==
    IF i > Len(props) THEN <<>>
    ELSE (IF i > 1 THEN <<44>> ELSE <<>>) \o QuoteJSONString(props[i].k)
             \o <<58>> \o JSONStringify(props[i].x) \o StringifyProps(props, i + 1)

JSONStringify(val) ==
    CASE val.t = "null" -> <<110, 117, 108, 108>>
      [] val.t = "bool" -> IF val.v THEN <<116, 114, 117, 101>>
                           ELSE <<102, 97, 108, 115, 101>>
      [] val.t = "num" -> NumberToString(val.v)
      [] val.t = "str" -> QuoteJSONString(val.v)
      [] val.t = "arr" -> <<91>> \o StringifyItems(val.v, 1) \o <<93>>
      [] val.t = "obj" -> <<123>> \o StringifyProps(val.v, 1) \o <<125>>

(***************************************************************************)
(* JSON.parse: a recursive descent over the code units of the text.  A     *)
(* parse step yields [ok, val, pos]: pos is the index after what was read. *)
(***************************************************************************)
Fail == [ok |-> FALSE, val |-> JNull, pos |-> 0]
Done(val, pos) == [ok |-> TRUE, val |-> val, pos |-> pos]

IsWs(c) == c \in {32, 9, 10, 13}
IsDigit(c) == c >= 48 /\ c <= 57

RECURSIVE SkipWs(_, _)
SkipWs(s, i) == IF i <= Len(s) /\ IsWs(s[i]) THEN SkipWs(s, i + 1) ELSE i

\* the text has the word w at index i
HasWord(s, i, w) ==
    /\ i + Len(w) - 1 <= Len(s)
    /\ \A j \in 1..Len(w) : s[i + j - 1] = w[j]

IsHex(c) == IsDigit(c) \/ (c >= 97 /\ c <= 102) \/ (c >= 65 /\ c <= 70)
HexValue(c) == IF IsDigit(c) THEN c - 48 ELSE IF c >= 97 THEN c - 87 ELSE c - 55

\* the characters of a string, from index j (after the opening quote)
RECURSIVE ParseStringBody(_, _, _)
ParseStringBody(s, j, acc) ==
    IF j > Len(s) THEN Fail
    ELSE LET c == s[j] IN
      IF c = 34 THEN Done(acc, j + 1)
      ELSE IF c < 32 THEN Fail
      ELSE IF c # 92 THEN ParseStringBody(s, j + 1, Append(acc, c))
      ELSE IF j + 1 > Len(s) THEN Fail
      ELSE LET e == s[j + 1] IN
        CASE e = 34 -> ParseStringBody(s, j + 2, Append(acc, 34))
          [] e = 92 -> ParseStringBody(s, j + 2, Append(acc, 92))
          [] e = 47 -> ParseStringBody(s, j + 2, Append(acc, 47))
          [] e = 98 -> ParseStringBody(s, j + 2, Append(acc, 8))
          [] e = 102 -> ParseStringBody(s, j + 2, Append(acc, 12))
          [] e = 110 -> ParseStringBody(s, j + 2, Append(acc, 10))
          [] e = 114 -> ParseStringBody(s, j + 2, Append(acc, 13))
          [] e = 116 -> ParseStringBody(s, j + 2, Append(acc, 9))
          [] e = 117 ->
               IF j + 5 <= Len(s) /\ \A d \in 2..5 : IsHex(s[j + d])
               THEN ParseStringBody(s, j + 6,
                        Append(acc, HexValue(s[j + 2]) * 4096
                                    + HexValue(s[j + 3]) * 256
                                    + HexValue(s[j + 4]) * 16
                                    + HexValue(s[j + 5])))
               ELSE Fail
          [] OTHER -> Fail

RECURSIVE SkipDigits(_, _)
SkipDigits(s, i) == IF i <= Len(s) /\ IsDigit(s[i]) THEN SkipDigits(s, i + 1) ELSE i

RECURSIVE DigitsValue(_, _, _, _)
DigitsValue(s, i, j, acc) ==
    IF i >= j THEN acc ELSE DigitsValue(s, i + 1, j, acc * 10 + (s[i] - 48))

(***************************************************************************)
(* The double a decimal denotes.  A natural number of any size is a        *)
(* sequence of limbs in base 10000, the least significant first and the    *)
(* most significant not 0; <<>> is 0.                                      *)
(***************************************************************************)
\* limbs of any size, and below 0 too, brought into 0..9999 from the least
\* significant on: the limbs, and what is carried out of the last
RECURSIVE Carried(_, _)
Carried(limbs, carry) ==
    IF Len(limbs) = 0 THEN [limbs |-> <<>>, carry |-> carry]
    ELSE IF Len(limbs) = 1
    THEN CHOOSE out \in {[limbs |-> <<v % 10000>>, carry |-> v \div 10000]
                         : v \in {limbs[1] + carry}} : TRUE
    ELSE CHOOSE out \in {
           CHOOSE both \in {
               [limbs |-> low.limbs \o high.limbs, carry |-> high.carry]
               : high \in {Carried(upper, low.carry)}} : TRUE
           : low \in {Carried(lower, carry)
                      : lower \in {SubSeq(limbs, 1, Len(limbs) \div 2)}},
             upper \in {SubSeq(limbs, (Len(limbs) \div 2) + 1, Len(limbs))}} : TRUE

RECURSIVE TrimTop(_)
TrimTop(limbs) ==
    IF Len(limbs) > 0 /\ limbs[Len(limbs)] = 0
    THEN CHOOSE out \in {TrimTop(rest) : rest \in {SubSeq(limbs, 1, Len(limbs) - 1)}} : TRUE
    ELSE limbs

\* the natural number that limbs of any size stand for
BigOf(limbs) ==
    CHOOSE out \in {
        TrimTop(whole)
        : whole \in {r.limbs \o <<r.carry % 10000, r.carry \div 10000>>
                     : r \in {Carried(given, 0) : given \in {limbs}}}} : TRUE

\* a * k, for k up to 2^17
BigTimes(a, k) ==
    CHOOSE out \in {BigOf(p) : p \in {<<>> \o [i \in 1..Len(x) |-> x[i] * k]
                                       : x \in {a}}} : TRUE

\* a * 2^k
RECURSIVE BigTimesPow2(_, _)
BigTimesPow2(a, k) ==
    IF k = 0 THEN a
    ELSE IF k <= 13 THEN BigTimes(a, 2 ^ k)
    ELSE CHOOSE out \in {BigTimesPow2(x, k - (k \div 2))
                         : x \in {BigTimesPow2(a, k \div 2)}} : TRUE

\* a * 10^e
BigTimesPow10(a, e) ==
    CHOOSE out \in {
        IF x = <<>> THEN <<>> ELSE [i \in 1..(e \div 4) |-> 0] \o x
        : x \in {BigTimes(a, 10 ^ (e % 4))}} : TRUE

\* thirteen bits of the quotient x / y, from bit j down: the quotient bits
\* so far in d, and what is left of x
RECURSIVE DivBits(_, _, _, _)
DivBits(x, y, j, d) ==
    LET \* a < b
        BigLess(a, b) ==
            IF Len(a) # Len(b) THEN Len(a) < Len(b)
            ELSE \E i \in 1..Len(a) :
                   /\ a[i] < b[i]
                   /\ \A h \in (i + 1)..Len(a) : a[h] = b[h]
        \* a - b, for a >= b
        BigMinus(a, b) ==
            BigOf(<<>> \o [i \in 1..Len(a) |->
                             a[i] - (IF i <= Len(b) THEN b[i] ELSE 0)])
    IN
    IF j < 0 THEN [d |-> d, r |-> x]
    ELSE CHOOSE out \in {
           IF BigLess(given, t) THEN DivBits(given, y, j - 1, d)
           ELSE CHOOSE less \in {DivBits(rest, y, j - 1, d + 2 ^ j)
                                 : rest \in {BigMinus(given, t)}} : TRUE
           : given \in {x}, t \in {BigTimes(y, 2 ^ j)}} : TRUE

\* the quotient x / y, below 2^65, as five digits in base 8192, the least
\* significant first, and what is left of x
RECURSIVE DivDigits(_, _, _, _)
DivDigits(x, y, i, digits) ==
    IF i < 0 THEN [digits |-> digits, r |-> x]
    ELSE CHOOSE out \in {
           CHOOSE further \in {DivDigits(rest, y, i - 1, sofar)
                                : rest \in {step.r},
                                  sofar \in {<<step.d>> \o digits}} : TRUE
           : step \in {DivBits(x, yi, 12, 0) : yi \in {BigTimesPow2(y, 13 * i)}}} : TRUE

\* the number made of n bits of the digits from bit k on
RECURSIVE BitsValue(_, _, _)
BitsValue(digits, k, n) ==
    IF n = 0 THEN 0
    ELSE (IF k > 64 THEN 0 ELSE (digits[(k \div 13) + 1] \div (2 ^ (k % 13))) % 2)
           + 2 * BitsValue(digits, k + 1, n - 1)

\* a double other than an integer below 2^31: (hi * 2^26 + lo) * 2^exp, the
\* significand from 2^52 up and below 2^53 unless exp is -1074; an exp of
\* 1024 is Infinity
Double(neg, hi, lo, exp) == [neg |-> neg, hi |-> hi, lo |-> lo, exp |-> exp]

\* the double nearest to digits * 10^e10, ties to the even significand:
\* the decimal is num / den * 2^q0, the quotient num / den has 54 to 59 bits
\* (fewer for a subnormal), and all but 53 of them are rounded off
NearestDouble(neg, digits, e10) ==
    LET \* the natural number written with the decimal digits d (code
        \* units), the most significant first
        BigOfDigits(d) ==
            LET n == Len(d)
                at(p) == IF p <= n THEN d[n + 1 - p] - 48 ELSE 0
            IN  CHOOSE out \in {
                  TrimTop(limbs)
                  : limbs \in {<<>> \o [i \in 1..((n + 3) \div 4) |->
                                          at(4 * i - 3) + 10 * at(4 * i - 2)
                                            + 100 * at(4 * i - 1) + 1000 * at(4 * i)]}} : TRUE
        \* a lower bound of the binary logarithm of a number with its first
        \* digit at the decimal place p, at most five below it
        Log2Floor(p) ==
            IF p >= 1 THEN ((p - 1) * 3321928) \div 1000000
            ELSE 0 - (((1 - p) * 3321929 + 999999) \div 1000000)
        dm == Len(digits) + e10
        q0 == IF Log2Floor(dm) - 53 < -1075 THEN -1075 ELSE Log2Floor(dm) - 53
    IN  CHOOSE out \in {
          LET bits == IF \E k \in 0..64 : BitsValue(quot.digits, k, 1) = 1
                      THEN 1 + CHOOSE k \in 0..64 :
                                 /\ BitsValue(quot.digits, k, 1) = 1
                                 /\ \A j \in (k + 1)..64 : BitsValue(quot.digits, j, 1) = 0
                      ELSE 0
              s == IF bits - 53 < 1 THEN 1 ELSE bits - 53
              lo == BitsValue(quot.digits, s, 26)
              hi == BitsValue(quot.digits, s + 26, 27)
              half == BitsValue(quot.digits, s - 1, 1) = 1
              sticky == quot.r # <<>>
                          \/ \E k \in 0..(s - 2) : BitsValue(quot.digits, k, 1) = 1
              up == half /\ (sticky \/ lo % 2 = 1)
              lo1 == IF up THEN (lo + 1) % 67108864 ELSE lo
              hi1 == IF up /\ lo + 1 = 67108864 THEN hi + 1 ELSE hi
              over == hi1 = 134217728
              hi2 == IF over THEN 67108864 ELSE hi1
              q == IF over THEN q0 + s + 1 ELSE q0 + s
          IN  IF q > 971 THEN Double(neg, 0, 0, 1024)
              ELSE Double(neg, hi2, lo1, q)
          : quot \in {DivDigits(num, den, 4, <<>>)
                      : num \in {BigTimesPow2(
                                   IF e10 >= 0 THEN BigTimesPow10(BigOfDigits(digits), e10)
                                   ELSE BigOfDigits(digits),
                                   IF q0 < 0 THEN 0 - q0 ELSE 0)},
                        den \in {BigTimesPow2(
                                   IF e10 >= 0 THEN <<1>>
                                   ELSE BigTimesPow10(<<1>>, 0 - e10),
                                   IF q0 > 0 THEN q0 ELSE 0)}}} : TRUE

\* the number a lexeme denotes: its digits before and after the point,
\* without the zeros at either end, and its exponent
NumberOfLexeme(neg, intDigits, fracDigits, expNeg, expDigits) ==
    LET
        \* a number of JSON.parse: the integers below 2^31, whatever their text, are
        \* the values JNum(n), and -0 is the 0 that === takes it for
        NumberOfDouble(d) ==
            IF d.hi = 0 /\ d.lo = 0 /\ d.exp # 1024 THEN JNum(0)
            ELSE IF d.hi >= 67108864 /\ d.exp >= -52 /\ d.exp <= -26
                    /\ d.lo = 0 /\ d.hi % (2 ^ ((0 - d.exp) - 26)) = 0
            THEN JNum((IF d.neg THEN -1 ELSE 1) * (d.hi \div (2 ^ ((0 - d.exp) - 26))))
            ELSE IF d.hi >= 67108864 /\ d.exp >= -25 /\ d.exp <= -22
                    /\ d.lo % (2 ^ (0 - d.exp)) = 0
            THEN JNum((IF d.neg THEN -1 ELSE 1)
                        * (d.hi * (2 ^ (26 + d.exp)) + (d.lo \div (2 ^ (0 - d.exp)))))
            ELSE JFloat(d)
        all == intDigits \o fracDigits
        nz == {j \in 1..Len(all) : all[j] # 48}
        first == CHOOSE j \in nz : \A k \in nz : j <= k
        last == CHOOSE j \in nz : \A k \in nz : k <= j
        sig == {j \in 1..Len(expDigits) : expDigits[j] # 48}
        lead == IF sig = {} THEN Len(expDigits) + 1
                ELSE CHOOSE j \in sig : \A k \in sig : j <= k
        \* the exponent as written; one of ten digits or more, which no
        \* run of digits in a string (of 2^29 - 24 code units at most) makes
        \* up for, decides the number whatever it is beyond 10^9
        mag == IF Len(expDigits) + 1 - lead > 9 THEN 1000000000
               ELSE DigitsValue(expDigits, lead, Len(expDigits) + 1, 0)
        e10 == (IF expNeg THEN 0 - mag ELSE mag) - Len(fracDigits) + (Len(all) - last)
        digits == SubSeq(all, first, last)
        dm == Len(digits) + e10
    IN  IF nz = {} THEN JNum(0)
        ELSE IF dm >= 310 THEN JFloat(Double(neg, 0, 0, 1024))
        ELSE IF dm <= -324 THEN JNum(0)
        ELSE IF e10 >= 0 /\ dm <= 9
        THEN JNum((IF neg THEN -1 ELSE 1)
                    * DigitsValue(digits, 1, Len(digits) + 1, 0) * (10 ^ e10))
        ELSE NumberOfDouble(NearestDouble(neg, digits, e10))

\* -? (0 | [1-9][0-9]*) (. [0-9]+)? ([eE] [+-]? [0-9]+)?
ParseNumber(s, i) ==
    LET neg == s[i] = 45
        a == IF neg THEN i + 1 ELSE i
        b == IF a <= Len(s) /\ s[a] = 48 THEN a + 1 ELSE SkipDigits(s, a)
        hasFrac == b <= Len(s) /\ s[b] = 46
        c == IF hasFrac THEN SkipDigits(s, b + 1) ELSE b
        hasExp == c <= Len(s) /\ s[c] \in {101, 69}
        d == IF hasExp /\ c + 1 <= Len(s) /\ s[c + 1] \in {43, 45}
             THEN c + 2 ELSE c + 1
        e == IF hasExp THEN SkipDigits(s, d) ELSE c
    IN  IF b = a \/ (hasFrac /\ c = b + 1) \/ (hasExp /\ e = d) THEN Fail
        ELSE Done(NumberOfLexeme(neg,
                                 SubSeq(s, a, b - 1),
                                 IF hasFrac THEN SubSeq(s, b + 1, c - 1) ELSE <<>>,
                                 hasExp /\ s[d - 1] = 45,
                                 IF hasExp THEN SubSeq(s, d, e - 1) ELSE <<>>),
                  e)

\* an array index: a decimal without a leading zero that is at most
\* 4294967294
IsIndexKey(k) ==
    /\ Len(k) >= 1 /\ Len(k) <= 10
    /\ \A j \in 1..Len(k) : IsDigit(k[j])
    /\ (k[1] = 48 => Len(k) = 1)
    /\ Len(k) = 10
       => LET top == <<52, 50, 57, 52, 57, 54, 55, 50, 57, 53>>
          IN  \E j \in 1..10 : /\ k[j] < top[j]
                               /\ \A h \in 1..(j - 1) : k[h] = top[h]

\* the definition of property k: an existing property keeps its place; index
\* keys come first, in ascending order; other keys in order of creation
ObjPut(props, k, x) ==
    LET \* the index a is below the index b
        IndexLess(a, b) ==
            IF Len(a) # Len(b) THEN Len(a) < Len(b)
            ELSE \E j \in 1..Len(a) : /\ a[j] < b[j]
                                      /\ \A h \in 1..(j - 1) : a[h] = b[h]
    IN
    IF \E j \in 1..Len(props) : props[j].k = k
    THEN [j \in 1..Len(props) |-> IF props[j].k = k THEN Prop(k, x) ELSE props[j]]
    ELSE IF IsIndexKey(k)
    THEN LET before == Cardinality({j \in 1..Len(props) :
                           IsIndexKey(props[j].k)
                           /\ IndexLess(props[j].k, k)})
         IN  SubSeq(props, 1, before) \o <<Prop(k, x)>>
                 \o SubSeq(props, before + 1, Len(props))
    ELSE Append(props, Prop(k, x))

RECURSIVE ParseValue(_, _)
RECURSIVE ParseItems(_, _, _)
RECURSIVE ParseProps(_, _, _)

\* the items of an array from index i, at least one item expected
ParseItems(s, i, acc) ==
    CHOOSE out \in {
        IF ~r.ok THEN Fail
        ELSE LET j == SkipWs(s, r.pos) IN
          IF j > Len(s) THEN Fail
          ELSE IF s[j] = 93 THEN Done(JArr(Append(acc, r.val)), j + 1)
          ELSE IF s[j] = 44 THEN ParseItems(s, j + 1, Append(acc, r.val))
          ELSE Fail
        : r \in {ParseValue(s, i)}} : TRUE

\* the properties of an object from index i, at least one expected
ParseProps(s, i, acc) ==
    LET a == SkipWs(s, i) IN
    IF a > Len(s) \/ s[a] # 34 THEN Fail
    ELSE CHOOSE out \in {
      IF ~k.ok THEN Fail
      ELSE LET b == SkipWs(s, k.pos) IN
        IF b > Len(s) \/ s[b] # 58 THEN Fail
        ELSE CHOOSE out2 \in {
          IF ~r.ok THEN Fail
          ELSE CHOOSE out3 \in {
            LET j == SkipWs(s, r.pos) IN
            IF j > Len(s) THEN Fail
            ELSE IF s[j] = 125 THEN Done(JObj(props), j + 1)
            ELSE IF s[j] = 44 THEN ParseProps(s, j + 1, props)
            ELSE Fail
            : props \in {ObjPut(acc, k.val, r.val)}} : TRUE
          : r \in {ParseValue(s, b + 1)}} : TRUE
      : k \in {ParseStringBody(s, a + 1, <<>>)}} : TRUE

ParseValue(s, i0) ==
    CHOOSE out \in {
    IF i > Len(s) THEN Fail
    ELSE LET c == s[i] IN
      CASE c = 110 -> IF HasWord(s, i, <<110, 117, 108, 108>>)
                      THEN Done(JNull, i + 4) ELSE Fail
        [] c = 116 -> IF HasWord(s, i, <<116, 114, 117, 101>>)
                      THEN Done(JBool(TRUE), i + 4) ELSE Fail
        [] c = 102 -> IF HasWord(s, i, <<102, 97, 108, 115, 101>>)
                      THEN Done(JBool(FALSE), i + 5) ELSE Fail
        [] c = 34 -> LET r == ParseStringBody(s, i + 1, <<>>) IN
                     IF r.ok THEN Done(JStr(r.val), r.pos) ELSE Fail
        [] c = 91 -> LET j == SkipWs(s, i + 1) IN
                     IF j <= Len(s) /\ s[j] = 93 THEN Done(JArr(<<>>), j + 1)
                     ELSE ParseItems(s, i + 1, <<>>)
        [] c = 123 -> LET j == SkipWs(s, i + 1) IN
                      IF j <= Len(s) /\ s[j] = 125 THEN Done(JObj(<<>>), j + 1)
                      ELSE ParseProps(s, i + 1, <<>>)
        [] c = 45 \/ IsDigit(c) -> ParseNumber(s, i)
        [] OTHER -> Fail
    : i \in {SkipWs(s, i0)}} : TRUE

\* JSON.parse(text): [ok, val]; not ok is a SyntaxError
JSONParse(text) ==
    CHOOSE out \in {
        IF r.ok /\ SkipWs(text, r.pos) > Len(text)
        THEN [ok |-> TRUE, val |-> r.val]
        ELSE [ok |-> FALSE, val |-> JNull]
        : r \in {ParseValue(text, 1)}} : TRUE

(***************************************************************************)
(* Memory.  A heap is a sequence of ArrayBuffers, a reference an index     *)
(* into it; views (DataView, Uint8Array, subarray) alias the buffer they   *)
(* are made on, so a write through a view is a write to the heap.          *)
(***************************************************************************)
\* new ArrayBuffer(n): n zero bytes
RECURSIVE Zeros(_)
Zeros(n) == IF n = 0 THEN <<>> ELSE Append(Zeros(n - 1), 0)

NewArrayBuffer(heap, n) == Append(heap, Zeros(n))

\* no copy: the same buffer under the same reference
BufferAlias(heap, ref) == [heap |-> heap, ref |-> ref]

\* buffer.slice(0): a new buffer holding a copy; the reference to it
BufferSlice(heap, ref) == [heap |-> Append(heap, heap[ref]), ref |-> Len(heap) + 1]

\* the bytes seen by view.subarray(begin): begin is clamped to the length
Subarray(bytes, begin) == SubSeq(bytes, begin + 1, Len(bytes))

\* the buffer after the elements of a view from offset 0 are set to part
WriteAtStart(bytes, begin, part) == part \o SubSeq(bytes, Len(part) + 1, Len(bytes))

\* the buffer after the elements of view.subarray(begin) are set to part
WriteSubarray(bytes, begin, part) ==
    IF begin >= Len(bytes) THEN bytes ELSE SubSeq(bytes, 1, begin) \o part

\* view.setUint8(offset, value)
SetUint8(bytes, offset, value) == [bytes EXCEPT ![offset + 1] = ToUint8(value)]

\* a read that yields 1 whatever the buffer holds
GetOne(bytes, offset) == 1

\* view.getUint8(offset)
GetUint8(bytes, offset) == bytes[offset + 1]

\* view.setUint32(offset, n, true): little-endian
SetUint32LittleEndian(bytes, offset, n) ==
    [bytes EXCEPT ![offset + 1] = n % 256,
                  ![offset + 2] = (n \div 256) % 256,
                  ![offset + 3] = (n \div 65536) % 256,
                  ![offset + 4] = (n \div 16777216) % 256]

\* view.setUint32(offset, n): big-endian
SetUint32(bytes, offset, n) ==
    [bytes EXCEPT ![offset + 1] = (n \div 16777216) % 256,
                  ![offset + 2] = (n \div 65536) % 256,
                  ![offset + 3] = (n \div 256) % 256,
                  ![offset + 4] = n % 256]

\* view.getUint32(offset), big-endian, as the two halves of the number
GetUint32(bytes, offset) ==
    Word(bytes[offset + 1] * 256 + bytes[offset + 2],
         bytes[offset + 3] * 256 + bytes[offset + 4])

\* a comparison of the upper halves only
UpperHalfGreater(w, n) == w.hi > n \div 65536

\* w > n, for an unsigned 32-bit w and a length n
WordGreater(w, n) ==
    \/ w.hi > n \div 65536
    \/ w.hi = n \div 65536 /\ w.lo > n % 65536

WordValue(w) == w.hi * 65536 + w.lo

(***************************************************************************)
(* EncryptionMethod: the dispatcher.                                       *)
(***************************************************************************)
\* Hash.secret throws for a secret that is no string
MethodThrows(name, secret) == name = "caesar" /\ secret = Null

\* new instance(secret).encrypt(dataPart)
InstanceEncrypt(name, secret, dataPart) ==
    CASE name = "xor" -> XOR_encrypt(secret, dataPart)
      [] name = "aes-like" -> AES_encrypt(secret, dataPart)
      [] name = "caesar" -> Caesar_encrypt(secret, dataPart)

\* new instance(secret).decrypt(dataPart)
InstanceDecrypt(name, secret, dataPart) ==
    CASE name = "xor" -> XOR_decrypt(secret, dataPart)
      [] name = "aes-like" -> AES_decrypt(secret, dataPart)
      [] name = "caesar" -> Caesar_decrypt(secret, dataPart)

\* what a call of the dispatcher did: the heap after it, whether it threw,
\* the strategy instantiated ("" when none) and the length m of the key
\* bytes of that strategy's secret (-1 when none)
Dispatched(heap, threw, ran, m) ==
    [heap |-> heap, threw |-> threw, ran |-> ran, m |-> m]

\* encryptor.encrypt(buffer, method)
EncryptionMethod_encrypt(secret, metaLength, heap, ref, method) ==
    LET existMethod == FindByName(method) IN
    IF existMethod = NoEntry THEN Dispatched(heap, FALSE, "", -1)
    ELSE IF MethodThrows(existMethod.name, secret)
    THEN Dispatched(heap, TRUE, existMethod.name, Len(SecretBytes(secret)))
    ELSE CHOOSE r \in {
           Dispatched([heap EXCEPT ![ref] = WriteSubarray(@, metaLength, out)],
                      FALSE, existMethod.name, Len(SecretBytes(secret)))
           : out \in {InstanceEncrypt(existMethod.name, secret, dataPart) :
                        dataPart \in {Subarray(heap[ref], metaLength)}}} : TRUE

\* encryptor.decrypt(buffer, methodCode)
EncryptionMethod_decrypt(secret, metaLength, heap, ref, methodCode) ==
    LET existMethod == FindByCode(methodCode) IN
    IF existMethod = NoEntry THEN Dispatched(heap, FALSE, "", -1)
    ELSE IF MethodThrows(existMethod.name, secret)
    THEN Dispatched(heap, TRUE, existMethod.name, Len(SecretBytes(secret)))
    ELSE CHOOSE r \in {
           Dispatched([heap EXCEPT ![ref] = WriteSubarray(@, metaLength, out)],
                      FALSE, existMethod.name, Len(SecretBytes(secret)))
           : out \in {InstanceDecrypt(existMethod.name, secret, dataPart) :
                        dataPart \in {Subarray(heap[ref], metaLength)}}} : TRUE

(***************************************************************************)
(* BinaryPack                                                              *)
(***************************************************************************)
VERSION == 1
OFFSET_VERSION == 0
OFFSET_METHOD_CODE == 1
OFFSET_DATA_LENGTH == 2
OFFSET_DATA == 6
META_LENGTH == 6

\* a test for null only
NotNull(secret) == secret # Null

\* the truthiness of a secret and of a method name: null and "" are falsy
TruthySecret(secret) == secret # Null /\ Len(secret) > 0
TruthyMethod(method) == method # NullName /\ method # ""

validMethodsName == {AvailableMethods[i].name : i \in 1..Len(AvailableMethods)}

\* a constructor that checks nothing
NewUnchecked(secret, encryptionMethod) ==
    [error |-> "",
     packer |-> [secret |-> secret, encryptionMethod |-> encryptionMethod]]

\* new BinaryPack(secret, encryptionMethod): the error thrown, or "" and the
\* instance
BinaryPack_new(secret, encryptionMethod) ==
    LET inst == [secret |-> secret, encryptionMethod |-> encryptionMethod] IN
    IF TruthySecret(secret) /\ ~TruthyMethod(encryptionMethod)
    THEN [error |-> "MethodRequired", packer |-> inst]
    ELSE IF TruthyMethod(encryptionMethod) /\ ~TruthySecret(secret)
    THEN [error |-> "SecretRequired", packer |-> inst]
    ELSE IF TruthyMethod(encryptionMethod)
            /\ encryptionMethod \notin validMethodsName
    THEN [error |-> "UnsupportedMethod", packer |-> inst]
    ELSE [error |-> "", packer |-> inst]

\* the part of pack after the text is encoded: the buffer is allocated,
\* the header and the bytes are written, the method is applied
PackBytes(packer, heap, stringBytes) ==
    LET h1 == NewArrayBuffer(heap, Len(stringBytes) + META_LENGTH)
        buffer == Len(heap) + 1
        methodCode == getEncryptionMethodCode(packer.encryptionMethod)
        b1 == SetUint8(h1[buffer], OFFSET_VERSION, VERSION)
        b2 == SetUint8(b1, OFFSET_METHOD_CODE, methodCode)
        b3 == SetUint32(b2, OFFSET_DATA_LENGTH, Len(stringBytes))
        b4 == WriteSubarray(b3, OFFSET_DATA, stringBytes)
    IN  CHOOSE out \in {
          IF TruthySecret(packer.secret) /\ TruthyMethod(packer.encryptionMethod)
          THEN CHOOSE out2 \in {
                 [heap |-> r.heap, ref |-> buffer,
                  error |-> IF r.threw THEN "PackError" ELSE "",
                  ran |-> r.ran, m |-> r.m]
                 : r \in {EncryptionMethod_encrypt(packer.secret, META_LENGTH, h2,
                                                   buffer, packer.encryptionMethod)}
               } : TRUE
          ELSE [heap |-> h2, ref |-> buffer, error |-> "", ran |-> "", m |-> -1]
          : h2 \in {[h1 EXCEPT ![buffer] = b4]}} : TRUE

\* a pack that writes null for a value JSON.stringify cannot serialize
PackNullForUnserializable(packer, heap, data) ==
    CHOOSE out \in {
        PackBytes(packer, heap, stringBytes)
        : stringBytes \in {TextEncode(jsonString) :
                             jsonString \in {IF StringifyThrows(data)
                                             THEN <<110, 117, 108, 108>>
                                             ELSE JSONStringify(data)}}} : TRUE

\* packer.pack(data): [heap, ref, error, ran, m]; ref is the buffer returned
\* (0 when none is), error the error thrown ("" when none), ran and m as
\* the dispatcher reports.  A TypeError of JSON.stringify is caught and
\* thrown again as the packing error, before any buffer is made.
BinaryPack_pack(packer, heap, data) ==
    IF StringifyThrows(data)
    THEN [heap |-> heap, ref |-> 0, error |-> "PackError", ran |-> "", m |-> -1]
    ELSE CHOOSE out \in {
        PackBytes(packer, heap, stringBytes)
        : stringBytes \in {TextEncode(jsonString) :
                             jsonString \in {JSONStringify(data)}}} : TRUE

\* the outcomes of unpack
Value(val) == [kind |-> "value", error |-> "", val |-> val]

\* errors that all read the same
ErrorOfOneKind(name) == [kind |-> "error", error |-> "UnpackError", val |-> JNull]

Error(name) == [kind |-> "error", error |-> name, val |-> JNull]

\* a reading of the payload that decodes every byte after the header
UnpackPayloadToTheEnd(h, bufferCopy) ==
    LET bytes == h[bufferCopy] IN
    IF Len(bytes) < OFFSET_DATA_LENGTH + 4 THEN Error("RangeError")
    ELSE IF WordGreater(GetUint32(bytes, OFFSET_DATA_LENGTH), Len(bytes) - META_LENGTH)
    THEN Error("InvalidLength")
    ELSE CHOOSE out \in {
           IF parsed.ok THEN Value(parsed.val) ELSE Error("SyntaxError")
           : parsed \in {JSONParse(jsonString) :
               jsonString \in {TextDecode(stringBytes) :
                 stringBytes \in {SubSeq(bytes, OFFSET_DATA + 1, Len(bytes))}}}
         } : TRUE

\* the part of unpack after the checks of version and method: h is the heap
\* and bufferCopy the reference of the private copy
UnpackPayload(h, bufferCopy) ==
    LET bytes == h[bufferCopy] IN
    IF Len(bytes) < OFFSET_DATA_LENGTH + 4 THEN Error("RangeError")
    ELSE LET dataLength == GetUint32(bytes, OFFSET_DATA_LENGTH) IN
      IF WordGreater(dataLength, Len(bytes) - META_LENGTH)
      THEN Error("InvalidLength")
      ELSE IF OFFSET_DATA + WordValue(dataLength) > Len(bytes)
      THEN Error("RangeError")
      ELSE CHOOSE out \in {
             IF parsed.ok THEN Value(parsed.val) ELSE Error("SyntaxError")
             : parsed \in {JSONParse(jsonString) :
                 jsonString \in {TextDecode(stringBytes) :
                   stringBytes \in {SubSeq(bytes, OFFSET_DATA + 1,
                                           OFFSET_DATA + WordValue(dataLength))}}}
           } : TRUE

\* what unpack did: the heap after it, its outcome, and ran and m as the
\* dispatcher reports
Unpacked(heap, out, ran, m) == [heap |-> heap, out |-> out, ran |-> ran, m |-> m]

\* an unpack that checks the stored length before the method
UnpackCopyLengthBeforeMethod(packer, h, bufferCopy) ==
    LET bytes == h[bufferCopy] IN
    IF Len(bytes) < META_LENGTH
    THEN Unpacked(h, Error("RangeError"), "", -1)
    ELSE IF GetUint8(bytes, OFFSET_VERSION) # VERSION
    THEN Unpacked(h, Error("FormatVersionMismatch"), "", -1)
    ELSE IF WordGreater(GetUint32(bytes, OFFSET_DATA_LENGTH), Len(bytes) - META_LENGTH)
    THEN Unpacked(h, Error("InvalidLength"), "", -1)
    ELSE LET methodCode == GetUint8(bytes, OFFSET_METHOD_CODE) IN
      IF TruthySecret(packer.secret) /\ TruthyMethod(packer.encryptionMethod)
      THEN LET storedMethod == getEncryptionMethodName(methodCode) IN
        IF packer.encryptionMethod # storedMethod
        THEN Unpacked(h, Error("MethodMismatch"), "", -1)
        ELSE CHOOSE res \in {
               Unpacked(r.heap,
                        IF r.threw THEN Error("TypeError")
                        ELSE UnpackPayload(r.heap, bufferCopy),
                        r.ran, r.m)
               : r \in {EncryptionMethod_decrypt(packer.secret, META_LENGTH,
                                                 h, bufferCopy, methodCode)}
             } : TRUE
      ELSE Unpacked(h, UnpackPayload(h, bufferCopy), "", -1)

\* an unpack that hands every buffer to the strategy its method code names,
\* whatever the packer
UnpackCopyDecryptingByCode(packer, h, bufferCopy) ==
    LET bytes == h[bufferCopy] IN
    IF Len(bytes) < OFFSET_METHOD_CODE + 1
    THEN Unpacked(h, Error("RangeError"), "", -1)
    ELSE IF GetUint8(bytes, OFFSET_VERSION) # VERSION
    THEN Unpacked(h, Error("FormatVersionMismatch"), "", -1)
    ELSE CHOOSE res \in {
           Unpacked(r.heap,
                    IF r.threw THEN Error("TypeError")
                    ELSE UnpackPayload(r.heap, bufferCopy),
                    r.ran, r.m)
           : r \in {EncryptionMethod_decrypt(packer.secret, META_LENGTH,
                                             h, bufferCopy,
                                             GetUint8(bytes, OFFSET_METHOD_CODE))}
         } : TRUE

\* an unpack for which the bytes a short buffer lacks read as 0
UnpackCopyReadingAbsentAsZero(packer, h, bufferCopy) ==
    LET given == h[bufferCopy]
        bytes == given \o [j \in 1..(IF Len(given) < META_LENGTH
                                      THEN META_LENGTH - Len(given) ELSE 0) |-> 0]
        padded == [h EXCEPT ![bufferCopy] = bytes]
    IN
    IF GetUint8(bytes, OFFSET_VERSION) # VERSION
    THEN Unpacked(h, Error("FormatVersionMismatch"), "", -1)
    ELSE LET methodCode == GetUint8(bytes, OFFSET_METHOD_CODE) IN
      IF TruthySecret(packer.secret) /\ TruthyMethod(packer.encryptionMethod)
      THEN LET storedMethod == getEncryptionMethodName(methodCode) IN
        IF packer.encryptionMethod # storedMethod
        THEN Unpacked(h, Error("MethodMismatch"), "", -1)
        ELSE CHOOSE res \in {
               Unpacked(r.heap,
                        IF r.threw THEN Error("TypeError")
                        ELSE UnpackPayload(r.heap, bufferCopy),
                        r.ran, r.m)
               : r \in {EncryptionMethod_decrypt(packer.secret, META_LENGTH,
                                                 padded, bufferCopy, methodCode)}
             } : TRUE
      ELSE Unpacked(h, UnpackPayload(padded, bufferCopy), "", -1)

\* the part of unpack that works on the private copy
UnpackCopy(packer, h, bufferCopy) ==
    LET bytes == h[bufferCopy] IN
    IF Len(bytes) < OFFSET_VERSION + 1
    THEN Unpacked(h, Error("RangeError"), "", -1)
    ELSE IF GetUint8(bytes, OFFSET_VERSION) # VERSION
    THEN Unpacked(h, Error("FormatVersionMismatch"), "", -1)
    ELSE IF Len(bytes) < OFFSET_METHOD_CODE + 1
    THEN Unpacked(h, Error("RangeError"), "", -1)
    ELSE LET methodCode == GetUint8(bytes, OFFSET_METHOD_CODE) IN
      IF TruthySecret(packer.secret) /\ TruthyMethod(packer.encryptionMethod)
      THEN LET storedMethod == getEncryptionMethodName(methodCode) IN
        IF packer.encryptionMethod # storedMethod
        THEN Unpacked(h, Error("MethodMismatch"), "", -1)
        ELSE CHOOSE res \in {
               Unpacked(r.heap,
                        IF r.threw THEN Error("TypeError")
                        ELSE UnpackPayload(r.heap, bufferCopy),
                        r.ran, r.m)
               : r \in {EncryptionMethod_decrypt(packer.secret, META_LENGTH,
                                                 h, bufferCopy, methodCode)}
             } : TRUE
      ELSE Unpacked(h, UnpackPayload(h, bufferCopy), "", -1)

\* packer.unpack(buffer)
BinaryPack_unpack(packer, heap, buffer) ==
    CHOOSE res \in {UnpackCopy(packer, c.heap, c.ref) :
                      c \in {BufferSlice(heap, buffer)}} : TRUE

(***************************************************************************)
(* Base64: btoa and atob over strings of code units, and the two methods   *)
(* of the class Base64 that BinaryPack hands on.                           *)
(***************************************************************************)
\* the character of the base64 alphabet for a number in 0..63, with the
\* URL-safe characters - and _ for 62 and 63
B64CharUrlSafe(n) ==
    IF n < 26 THEN 65 + n
    ELSE IF n < 52 THEN 97 + (n - 26)
    ELSE IF n < 62 THEN 48 + (n - 52)
    ELSE IF n = 62 THEN 45 ELSE 95

\* the character of the base64 alphabet for a number in 0..63
B64Char(n) ==
    IF n < 26 THEN 65 + n
    ELSE IF n < 52 THEN 97 + (n - 26)
    ELSE IF n < 62 THEN 48 + (n - 52)
    ELSE IF n = 62 THEN 43 ELSE 47

\* [A-Za-z0-9+/]
IsB64Char(c) ==
    \/ c >= 65 /\ c <= 90
    \/ c >= 97 /\ c <= 122
    \/ c >= 48 /\ c <= 57
    \/ c = 43 \/ c = 47

\* the number a character of the alphabet stands for
B64Value(c) ==
    IF c >= 65 /\ c <= 90 THEN c - 65
    ELSE IF c >= 97 /\ c <= 122 THEN c - 97 + 26
    ELSE IF c >= 48 /\ c <= 57 THEN c - 48 + 52
    ELSE IF c = 43 THEN 62 ELSE 63

\* btoa(binary) for a string of code units below 256: three bytes give four
\* characters; a last group of one or two bytes is padded with =
Btoa(binary) ==
    LET n == Len(binary)
        At(k) == IF k <= n THEN binary[k] ELSE 0
    IN  <<>> \o [p \in 1..(4 * ((n + 2) \div 3)) |->
          LET g == (p - 1) \div 4
              b0 == At(3 * g + 1)
              b1 == At(3 * g + 2)
              b2 == At(3 * g + 3)
          IN  CASE (p - 1) % 4 = 0 -> B64Char(b0 \div 4)
                [] (p - 1) % 4 = 1 -> B64Char((b0 % 4) * 16 + (b1 \div 16))
                [] (p - 1) % 4 = 2 ->
                     IF 3 * g + 2 > n THEN 61
                     ELSE B64Char((b1 % 16) * 4 + (b2 \div 64))
                [] OTHER ->
                     IF 3 * g + 3 > n THEN 61 ELSE B64Char(b2 % 64)]

\* Base64.bufferToBase64(buffer): binary += String.fromCharCode(bytes[i]);
\* return btoa(binary)
bufferToBase64(bytes) ==
    CHOOSE r \in {Btoa(binary) :
                    binary \in {<<>> \o [i \in 1..Len(bytes) |-> bytes[i]]}} : TRUE

\* ASCII whitespace, which atob drops
IsAsciiWhitespace(c) == c \in {9, 10, 12, 13, 32}

\* atob(data), the forgiving base64 decoding: whitespace is dropped; when the
\* length is a multiple of 4 one or two = at the end are dropped; a length
\* of 1 modulo 4 or a character outside the alphabet is a failure; the bits
\* left over after the last whole byte are dropped
Atob(data) ==
    LET d1 == SelectSeq(data, LAMBDA c : ~IsAsciiWhitespace(c))
        n1 == Len(d1)
        drop == IF n1 % 4 = 0 /\ n1 > 0 /\ d1[n1] = 61
                THEN (IF d1[n1 - 1] = 61 THEN 2 ELSE 1)
                ELSE 0
        n2 == n1 - drop
    IN  IF n2 % 4 = 1 \/ \E i \in 1..n2 : ~IsB64Char(d1[i])
        THEN [ok |-> FALSE, binary |-> <<>>]
        ELSE [ok |-> TRUE,
              binary |-> <<>> \o [j \in 1..((n2 * 6) \div 8) |->
                LET g == (j - 1) \div 3
                    s0 == B64Value(d1[4 * g + 1])
                    s1 == B64Value(d1[4 * g + 2])
                    s2 == IF 4 * g + 3 <= n2 THEN B64Value(d1[4 * g + 3]) ELSE 0
                    s3 == IF 4 * g + 4 <= n2 THEN B64Value(d1[4 * g + 4]) ELSE 0
                IN  CASE (j - 1) % 3 = 0 -> s0 * 4 + (s1 \div 16)
                      [] (j - 1) % 3 = 1 -> (s1 % 16) * 16 + (s2 \div 4)
                      [] OTHER -> (s2 % 4) * 64 + s3]]

\* /^[A-Za-z0-9+/]*={0,2}$/.test(base64)
base64Regex(base64) ==
    \E k \in 0..2 :
       /\ k <= Len(base64)
       /\ \A i \in 1..Len(base64) :
            IF i > Len(base64) - k THEN base64[i] = 61 ELSE IsB64Char(base64[i])

\* Base64.base64ToBuffer(base64) for a string: the error thrown ("" when
\* none) and the bytes of the buffer returned
base64ToBuffer(base64) ==
    IF ~base64Regex(base64) THEN [error |-> "InvalidFormat", bytes |-> <<>>]
    ELSE CHOOSE r \in {
           IF a.ok THEN [error |-> "", bytes |-> a.binary]
           ELSE [error |-> "DecodeError", bytes |-> <<>>]
           : a \in {Atob(base64)}} : TRUE

(***************************************************************************)
(* The state machine: a caller who constructs packers, packs values, keeps *)
(* the buffer returned, alters it, and hands it to unpack. An error thrown *)
(* by the constructor is not caught: it ends the caller's run.             *)
(***************************************************************************)
VARIABLES
    packer,   \* the last new BinaryPack(secret, encryptionMethod): its
              \* arguments, the error it threw ("" when none) and whether
              \* there is an instance: [made, secret, encryptionMethod, error]
    buf,      \* the bytes of the caller's buffer
    origin,   \* how buf came about: [packed, v, secret, encryptionMethod, tampers]
    last,     \* the last call of pack or unpack, when packer and buf are
              \* still what it left: [op, kind, error, val, ran, m]
    pre       \* the caller's buffer as it was when that call was made

vars == <<packer, buf, origin, last, pre>>

\* the number of alterations the caller makes to one packed buffer: a
\* byte overwritten, bytes appended, or the buffer cut short
MaxTampers == 1

\* "k" followed by e-acute (the key bytes are 107, 195, 169), and "a"
Secrets == {Null, <<>>, <<107, 233>>, <<97>>}
Methods == {NullName, "xor", "aes-like", "caesar", "md5"}

\* {"a":[1,null]}   "\"e-acute"   -42   [true,"<lone surrogate>"]   {}
Values ==
    { JObj(<<Prop(<<97>>, JArr(<<JNum(1), JNull>>))>>),
      JStr(<<34, 233>>),
      JNum(-42),
      JArr(<<JBool(TRUE), JStr(<<55357>>)>>),
      JObj(<<>>),
      JNum(7),
      JObj(<<Prop(<<97>>, JNum(1)), Prop(<<98>>, JArr(<<JSelf>>))>>) }

\* the bytes a caller may write, <<offset, byte>>: over the version, over the
\* method code, over the first and the last byte of the length, over the
\* first byte of the payload
Tampers ==
    { <<0, 0>>, <<0, 2>>,
      <<1, 0>>, <<1, 2>>, <<1, 3>>, <<1, 255>>,
      <<2, 255>>, <<5, 2>>, <<5, 255>>,
      <<6, 255>> }

\* the bytes a caller may put after the packed ones
Extras == { <<0>>, <<255, 125>> }

\* the lengths a caller may cut the buffer down to, all below the header's
Cuts == {0, 1, 2, 5}

NoPacker == [made |-> FALSE, secret |-> Null, encryptionMethod |-> NullName,
             error |-> ""]
NoOrigin == [packed |-> FALSE, v |-> JNull, secret |-> Null,
             encryptionMethod |-> NullName, tampers |-> 0]
Call(op, kind, error, val, ran, m) ==
    [op |-> op, kind |-> kind, error |-> error, val |-> val, ran |-> ran, m |-> m]
NoCall == Call("none", "none", "", JNull, "", -1)

Init ==
    /\ packer = NoPacker
    /\ buf = <<>>
    /\ origin = NoOrigin
    /\ last = NoCall
    /\ pre = <<>>

\* packer = new BinaryPack(secret, encryptionMethod)
New(secret, encryptionMethod) ==
    /\ packer.error = ""
    /\ \E r \in {BinaryPack_new(secret, encryptionMethod)} :
       packer' = [made |-> r.error = "", secret |-> r.packer.secret,
                  encryptionMethod |-> r.packer.encryptionMethod,
                  error |-> r.error]
    /\ last' = NoCall
    /\ pre' = <<>>
    /\ UNCHANGED <<buf, origin>>

\* buf = packer.pack(v); when pack throws, buf keeps what it held
Pack(v) ==
    /\ packer.made
    /\ \E r \in {BinaryPack_pack(packer, <<>>, v)} :
       IF r.error = ""
       THEN /\ buf' = r.heap[r.ref]
            /\ origin' = [packed |-> TRUE, v |-> v, secret |-> packer.secret,
                          encryptionMethod |-> packer.encryptionMethod,
                          tampers |-> 0]
            /\ last' = Call("pack", "value", "", JNull, r.ran, r.m)
       ELSE /\ UNCHANGED <<buf, origin>>
            /\ last' = Call("pack", "error", r.error, JNull, r.ran, r.m)
    /\ pre' = <<>>
    /\ UNCHANGED packer

\* the caller overwrites one byte of the buffer
TamperByte(offset, byte) ==
    /\ packer.error = ""
    /\ origin.packed /\ origin.tampers < MaxTampers
    /\ offset < Len(buf) /\ buf[offset + 1] # byte
    /\ buf' = [buf EXCEPT ![offset + 1] = byte]
    /\ origin' = [origin EXCEPT !.tampers = @ + 1]
    /\ last' = NoCall
    /\ pre' = <<>>
    /\ UNCHANGED packer

\* the caller hands on the packed bytes followed by further bytes
AppendBytes(extra) ==
    /\ packer.error = ""
    /\ origin.packed /\ origin.tampers < MaxTampers
    /\ buf' = buf \o extra
    /\ origin' = [origin EXCEPT !.tampers = @ + 1]
    /\ last' = NoCall
    /\ pre' = <<>>
    /\ UNCHANGED packer

\* the caller hands on the first n bytes only
Truncate(n) ==
    /\ packer.error = ""
    /\ origin.packed /\ origin.tampers < MaxTampers
    /\ n < Len(buf)
    /\ buf' = SubSeq(buf, 1, n)
    /\ origin' = [origin EXCEPT !.tampers = @ + 1]
    /\ last' = NoCall
    /\ pre' = <<>>
    /\ UNCHANGED packer

\* packer.unpack(buf)
Unpack ==
    /\ packer.made /\ origin.packed
    /\ \E r \in {BinaryPack_unpack(packer, <<buf>>, 1)} :
       /\ buf' = r.heap[1]
       /\ last' = Call("unpack", r.out.kind, r.out.error, r.out.val, r.ran, r.m)
       /\ pre' = buf
    /\ UNCHANGED <<packer, origin>>

\* BinaryPack.bufferToBase64(buf): the caller turns the buffer it holds,
\* or an empty buffer when it holds none, into text
BufferToBase64 ==
    /\ packer.error = ""
    /\ last.op \in {"none", "pack"}
    /\ last' = Call("bufferToBase64", "value", "", JStr(bufferToBase64(buf)), "", -1)
    /\ pre' = buf
    /\ UNCHANGED <<packer, buf, origin>>

\* BinaryPack.base64ToBuffer(text) of the text just made: the caller holds
\* the buffer returned from now on
Base64ToBuffer ==
    /\ last.op = "bufferToBase64"
    /\ \E r \in {base64ToBuffer(last.val.v)} :
       /\ buf' = IF r.error = "" THEN r.bytes ELSE buf
       /\ last' = Call("base64ToBuffer", IF r.error = "" THEN "value" ELSE "error",
                       r.error, JNull, "", -1)
    /\ pre' = buf
    /\ UNCHANGED <<packer, origin>>

Next ==
    \/ \E s \in Secrets, m \in Methods : New(s, m)
    \/ \E v \in Values : Pack(v)
    \/ \E t \in Tampers : TamperByte(t[1], t[2])
    \/ \E extra \in Extras : AppendBytes(extra)
    \/ \E n \in Cuts : Truncate(n)
    \/ Unpack
    \/ BufferToBase64
    \/ Base64ToBuffer

Spec == Init /\ [][Next]_vars

(***************************************************************************)
(* A second caller, who uses the dispatcher directly: a buffer of any      *)
(* length is handed to encrypt, and then, or at once, to decrypt.          *)
(***************************************************************************)
Buffers ==
    { <<>>,
      <<1, 1, 0>>,
      <<1, 1, 0, 0, 0, 0>>,
      <<1, 2, 0, 0, 0, 2, 123, 125>>,
      <<9, 8, 7, 6, 5, 4, 3, 2, 1, 0>>,
      <<255, 255, 255, 255, 255, 255, 255, 0, 128>> }
Codes == {0, 1, 2, 3, 4}

InitDispatcher ==
    /\ packer = NoPacker
    /\ buf \in Buffers
    /\ origin = NoOrigin
    /\ last = NoCall
    /\ pre = <<>>

DispatcherCall(op, r) ==
    /\ buf' = r.heap[1]
    /\ last' = IF r.threw THEN Call(op, "error", "TypeError", JNull, r.ran, r.m)
               ELSE Call(op, "value", "", JNull, r.ran, r.m)
    /\ pre' = buf
    /\ UNCHANGED <<packer, origin>>

\* new EncryptionMethod(secret, META_LENGTH).encrypt(buf, method)
Encrypt(secret, method) ==
    /\ last.op = "none"
    /\ \E r \in {EncryptionMethod_encrypt(secret, META_LENGTH, <<buf>>, 1, method)} :
       DispatcherCall("encrypt", r)

\* new EncryptionMethod(secret, META_LENGTH).decrypt(buf, methodCode)
Decrypt(secret, methodCode) ==
    /\ last.op \in {"none", "encrypt"}
    /\ \E r \in {EncryptionMethod_decrypt(secret, META_LENGTH, <<buf>>, 1, methodCode)} :
       DispatcherCall("decrypt", r)

\* the names and the codes a caller looks up: the method names of the
\* model, the empty name, two keys of AvailableMethodsName; every byte
LookupNames == Methods \cup {"", "AES", "XOR"}
LookupCodes == 0..255

\* what a lookup returned for an argument
Looked(arg, ret) == [t |-> "looked", v |-> <<arg, ret>>]

\* encryptor.getEncryptionMethodCode(method)
GetCode(method) ==
    /\ last.op = "none"
    /\ last' = Call("getEncryptionMethodCode", "value", "",
                    Looked(method, getEncryptionMethodCode(method)), "", -1)
    /\ pre' = buf
    /\ UNCHANGED <<packer, buf, origin>>

\* encryptor.getEncryptionMethodName(methodCode)
GetName(methodCode) ==
    /\ last.op = "none"
    /\ last' = Call("getEncryptionMethodName", "value", "",
                    Looked(methodCode, getEncryptionMethodName(methodCode)), "", -1)
    /\ pre' = buf
    /\ UNCHANGED <<packer, buf, origin>>

NextDispatcher ==
    \/ \E s \in Secrets, m \in Methods : Encrypt(s, m)
    \/ \E s \in Secrets, c \in Codes : Decrypt(s, c)
    \/ \E m \in LookupNames : GetCode(m)
    \/ \E c \in LookupCodes : GetName(c)

SpecDispatcher == InitDispatcher /\ [][NextDispatcher]_vars

\* ------------------------------------------------------------------
\* The strategies and the hash, called directly: a caller makes an
\* instance of one strategy class over a secret and applies it to a
\* Uint8Array it owns, or calls Hash.secret.  packer holds the instance,
\* buf the array, pre the array before the last call, last the last call,
\* origin the secret and the class of the instance that made the last call
\* with the number of calls made so far.
\* ------------------------------------------------------------------

MaxCalls == 2

\* the arrays handed to a strategy: empty, one byte, a few bytes, two of
\* 256 bytes (every byte value once; all zero), and one of 300 bytes
Slices ==
    { <<>>,
      <<0>>,
      <<0, 1, 255, 128, 77, 200>>,
      <<>> \o [i \in 1..256 |-> i - 1],
      <<>> \o [i \in 1..256 |-> 0],
      <<>> \o [i \in 1..300 |-> (i * 7) % 256] }

\* the secrets of the instances: "a" and "{" have one shift, "ké" and
\* "B" another; the last is 64 characters long
MethodSecrets ==
    { <<97>>, <<123>>, <<107, 233>>, <<66>>,
      <<>> \o [i \in 1..64 |-> 32 + i] }

\* the arguments of Hash.secret: null, the empty string, the secrets,
\* "Test", "polygenelubricants" (whose accumulator ends at -2^31), a
\* surrogate pair, and a string that wraps around many times
HashInputs ==
    MethodSecrets \cup
    { Null, <<>>, <<84, 101, 115, 116>>,
      <<112, 111, 108, 121, 103, 101, 110, 101, 108,
        117, 98, 114, 105, 99, 97, 110, 116, 115>>,
      <<55357, 56832>>,
      <<>> \o [i \in 1..40 |-> 65535 - i] }

InitMethods ==
    /\ packer = NoPacker
    /\ buf \in Slices
    /\ origin = NoOrigin
    /\ last = NoCall
    /\ pre = <<>>

\* the names of the three strategy classes
StrategyClasses == {"xor", "aes-like", "caesar"}

\* new XOR(secret), new AES(secret), new Caesar(secret); a caller stays
\* with one class and makes a further instance only over another secret
Instantiate(name, secret) ==
    /\ ~packer.made \/ packer.encryptionMethod = name
    /\ ~packer.made \/ packer.secret # secret
    /\ last.op # "secret"
    /\ packer' = [made |-> TRUE, secret |-> secret,
                  encryptionMethod |-> name, error |-> ""]
    /\ UNCHANGED <<buf, origin, last, pre>>

\* the call before the last one: its operation, the secret of its
\* instance, and the array it was given
Previous(op, secret, before) ==
    [t |-> "previous", v |-> <<op, secret, before>>]

MethodCall(op, out) ==
    /\ buf' = out
    /\ pre' = buf
    /\ last' = Call(op, "value", "", JNull, packer.encryptionMethod, -1)
    /\ origin' = [origin EXCEPT !.v = Previous(last.op, origin.secret, pre),
                                !.secret = packer.secret,
                                !.encryptionMethod = packer.encryptionMethod,
                                !.tampers = origin.tampers + 1]
    /\ UNCHANGED packer

\* instance.encrypt(buf)
MethodEncrypt ==
    /\ packer.made
    /\ origin.tampers < MaxCalls
    /\ \E out \in {InstanceEncrypt(packer.encryptionMethod, packer.secret, buf)} :
       MethodCall("encrypt", out)

\* instance.decrypt(buf)
MethodDecrypt ==
    /\ packer.made
    /\ origin.tampers < MaxCalls
    /\ \E out \in {InstanceDecrypt(packer.encryptionMethod, packer.secret, buf)} :
       MethodCall("decrypt", out)

\* Hash.secret(s)
HashCall(s) ==
    /\ last.op = "none"
    /\ ~packer.made
    /\ last' = IF s = Null
               THEN Call("secret", "error", "InvalidInput", JNull, "", -1)
               ELSE Call("secret", "value", "", Looked(s, HashSecret(s)), "", -1)
    /\ pre' = buf
    /\ UNCHANGED <<packer, buf, origin>>

NextMethods ==
    \/ \E n \in StrategyClasses, s \in MethodSecrets : Instantiate(n, s)
    \/ MethodEncrypt
    \/ MethodDecrypt
    \/ \E s \in HashInputs : HashCall(s)

SpecMethods == InitMethods /\ [][NextMethods]_vars

\* ------------------------------------------------------------------
\* Several tasks with one packer.  A call of pack or unpack is synchronous
\* and has no suspension point, so the calls of the tasks (callbacks,
\* promise reactions) interleave call by call.  buf is the heap, one buffer
\* for each task, which no other task holds; origin and last are kept for
\* each task; pre is not used.
\* ------------------------------------------------------------------
Tasks == {1, 2}

\* the values the tasks pack, a cyclic one among them
TaskValues ==
    { JNum(7), JStr(<<34, 233>>),
      JObj(<<Prop(<<97>>, JArr(<<JNum(1), JNull>>))>>),
      JArr(<<JSelf>>) }

\* the packers the constructor makes
SharedPackers ==
    { [made |-> TRUE, secret |-> s, encryptionMethod |-> m, error |-> ""] :
        <<s, m>> \in {<<s, m>> \in Secrets \X Methods :
                        BinaryPack_new(s, m).error = ""} }

InitTasks ==
    /\ packer \in SharedPackers
    /\ buf = <<<<>>, <<>>>>
    /\ origin = [t \in Tasks |-> NoOrigin]
    /\ last = [t \in Tasks |-> NoCall]
    /\ pre = <<>>

\* a pack whose result lies in one buffer of the instance, which every
\* task then holds
TaskPackIntoOneBuffer(t, v) ==
    /\ \E r \in {BinaryPack_pack(packer, buf, v)} :
       IF r.error = ""
       THEN /\ buf' = <<r.heap[r.ref], r.heap[r.ref]>>
            /\ origin' = [origin EXCEPT ![t] =
                            [packed |-> TRUE, v |-> v, secret |-> packer.secret,
                             encryptionMethod |-> packer.encryptionMethod,
                             tampers |-> 0]]
            /\ last' = [last EXCEPT ![t] = Call("pack", "value", "", JNull, r.ran, r.m)]
       ELSE /\ buf' = <<r.heap[1], r.heap[2]>>
            /\ origin' = origin
            /\ last' = [last EXCEPT ![t] = Call("pack", "error", r.error, JNull, r.ran, r.m)]
    /\ UNCHANGED <<packer, pre>>

\* task t: its buffer = packer.pack(v), on the heap as all tasks left it
TaskPack(t, v) ==
    /\ \E r \in {BinaryPack_pack(packer, buf, v)} :
       IF r.error = ""
       THEN /\ buf' = <<IF t = 1 THEN r.heap[r.ref] ELSE r.heap[1],
                        IF t = 2 THEN r.heap[r.ref] ELSE r.heap[2]>>
            /\ origin' = [origin EXCEPT ![t] =
                            [packed |-> TRUE, v |-> v, secret |-> packer.secret,
                             encryptionMethod |-> packer.encryptionMethod,
                             tampers |-> 0]]
            /\ last' = [last EXCEPT ![t] = Call("pack", "value", "", JNull, r.ran, r.m)]
       ELSE /\ buf' = <<r.heap[1], r.heap[2]>>
            /\ origin' = origin
            /\ last' = [last EXCEPT ![t] = Call("pack", "error", r.error, JNull, r.ran, r.m)]
    /\ UNCHANGED <<packer, pre>>

\* task t: packer.unpack(its buffer)
TaskUnpack(t) ==
    /\ origin[t].packed
    /\ \E r \in {BinaryPack_unpack(packer, buf, t)} :
       /\ buf' = <<r.heap[1], r.heap[2]>>
       /\ last' = [last EXCEPT ![t] =
                     Call("unpack", r.out.kind, r.out.error, r.out.val, r.ran, r.m)]
    /\ UNCHANGED <<packer, origin, pre>>

NextTasks ==
    \/ \E t \in Tasks, v \in TaskValues : TaskPack(t, v)
    \/ \E t \in Tasks : TaskUnpack(t)

SpecTasks == InitTasks /\ [][NextTasks]_vars

(***************************************************************************)
(* Properties.                                                             *)
(***************************************************************************)
\* a secret, a method, is given when it is neither null nor empty
SecretGiven(secret) == secret \notin {Null, <<>>}
MethodGiven(method) == method \notin {NullName, ""}
RegisteredNames == {"xor", "aes-like", "caesar"}

\* the packer at hand is configured as the one that packed buf
SamePacker ==
    /\ packer.secret = origin.secret
    /\ packer.encryptionMethod = origin.encryptionMethod

\* buf is a buffer as pack returned it, and unpack has just been given it
UnpackedAsPacked == last.op = "unpack" /\ origin.packed /\ origin.tampers = 0

\* C1: a packer constructed with no secret and no method unpacks what it
\* packed to a value that deep-equals the value packed
RoundTripWithoutSecret ==
    ( /\ UnpackedAsPacked /\ SamePacker
      /\ ~SecretGiven(packer.secret) /\ ~MethodGiven(packer.encryptionMethod) )
    => last.kind = "value" /\ last.val = origin.v

\* the string with a quote and a non-ASCII character has made the round trip
RoundTripWithoutSecretSeen ==
    /\ UnpackedAsPacked /\ SamePacker
    /\ packer.secret = Null /\ packer.encryptionMethod = NullName
    /\ last.kind = "value" /\ last.val = JStr(<<34, 233>>)

\* C2: for each of the three methods and every nonempty secret, a packer
\* configured with both unpacks what it packed to a value that deep-equals
\* the value packed; the strategy of that method is the one that decrypted
RoundTripWithSecret ==
    ( /\ UnpackedAsPacked /\ SamePacker
      /\ SecretGiven(packer.secret)
      /\ packer.encryptionMethod \in RegisteredNames )
    => /\ last.kind = "value" /\ last.val = origin.v
       /\ last.ran = packer.encryptionMethod

\* the nested value has made the round trip through aes-like, and the
\* buffer held other bytes than the text
RoundTripWithSecretSeen ==
    /\ UnpackedAsPacked /\ SamePacker
    /\ packer.secret = <<107, 233>> /\ packer.encryptionMethod = "aes-like"
    /\ last.kind = "value"
    /\ last.val = JObj(<<Prop(<<97>>, JArr(<<JNum(1), JNull>>))>>)
    /\ buf[7] # 123

\* the registry code of a method name, 0 for a name that has none
CodeOfName(method) ==
    CASE method = "xor" -> 1
      [] method = "aes-like" -> 2
      [] method = "caesar" -> 3
      [] OTHER -> 0

\* the number of bytes of the UTF-8 encoding of the JSON text of v
TextLength(v) == Len(TextEncode(JSONStringify(v)))

\* C3: pack returns a buffer of 6 + n bytes, n the number of bytes of the
\* UTF-8 JSON text: byte 0 is 1, byte 1 the registry code of the configured
\* method (0 without one), bytes 2..5 are n, big-endian, with or without a
\* transform
PackedLayout ==
    (origin.packed /\ origin.tampers = 0)
    => \E n \in {TextLength(origin.v)} :
         /\ Len(buf) = 6 + n
         /\ buf[1] = 1
         /\ buf[2] = CodeOfName(origin.encryptionMethod)
         /\ origin.encryptionMethod = NullName => buf[2] = 0
         /\ buf[3] = (n \div 16777216) % 256
         /\ buf[4] = (n \div 65536) % 256
         /\ buf[5] = (n \div 256) % 256
         /\ buf[6] = n % 256

\* a packer with caesar has packed the value whose text has 15 bytes
PackedLayoutSeen ==
    /\ origin.packed /\ origin.tampers = 0 /\ last.op = "pack"
    /\ origin.encryptionMethod = "caesar" /\ last.ran = "caesar"
    /\ origin.v = JArr(<<JBool(TRUE), JStr(<<55357>>)>>)
    /\ Len(buf) = 21 /\ SubSeq(buf, 1, 6) = <<1, 3, 0, 0, 0, 15>>

\* C4: the dispatcher's encrypt and decrypt leave the length of the buffer
\* and its bytes 0..5 as they were, for every method, secret and buffer;
\* only bytes at offset 6 or more may change
HeaderNeverTransformed ==
    last.op \in {"encrypt", "decrypt"}
    => /\ Len(buf) = Len(pre)
       /\ \A i \in 1..Len(buf) : i <= 6 => buf[i] = pre[i]

\* decrypt has run aes-like over a buffer of ten bytes and changed it
HeaderNeverTransformedSeen ==
    /\ last.op = "decrypt" /\ last.ran = "aes-like"
    /\ Len(pre) = 10 /\ buf # pre

\* the name the registry holds for a code, NullName for a code it lacks
NameOfCode(methodCode) ==
    CASE methodCode = 1 -> "xor"
      [] methodCode = 2 -> "aes-like"
      [] methodCode = 3 -> "caesar"
      [] OTHER -> NullName

\* unpack has just been called by a packer with a secret and a method
SecuredUnpack ==
    /\ last.op = "unpack"
    /\ SecretGiven(packer.secret) /\ MethodGiven(packer.encryptionMethod)

MethodMismatch == last.kind = "error" /\ last.error = "MethodMismatch"

\* C5: a packer with a secret and a method, given a buffer of the current
\* version whose method code resolves to another name than the packer's
\* method, or to none, fails with MethodMismatch; so does a packer for
\* caesar given what a packer for xor packed
MethodMismatchRaised ==
    /\ ( /\ SecuredUnpack /\ Len(pre) >= 2 /\ pre[1] = 1
         /\ NameOfCode(pre[2]) # packer.encryptionMethod )
       => MethodMismatch
    /\ ( /\ SecuredUnpack /\ origin.tampers = 0
         /\ origin.encryptionMethod = "xor" /\ packer.encryptionMethod = "caesar" )
       => MethodMismatch

\* a packer for caesar has been given what a packer for xor packed with the
\* same secret
MethodMismatchRaisedSeen ==
    /\ SecuredUnpack /\ origin.tampers = 0
    /\ origin.encryptionMethod = "xor" /\ packer.encryptionMethod = "caesar"
    /\ origin.secret = packer.secret /\ pre[2] = 1
    /\ MethodMismatch

\* C6: unpack of a buffer whose byte 0 is not 1 fails with
\* FormatVersionMismatch, for every packer and whatever the other bytes are
VersionMismatchRaised ==
    (last.op = "unpack" /\ Len(pre) >= 1 /\ pre[1] # 1)
    => last.kind = "error" /\ last.error = "FormatVersionMismatch"

\* a packer with a secret has been given a packed buffer whose version byte
\* was changed to 2
VersionMismatchRaisedSeen ==
    /\ SecuredUnpack /\ SamePacker /\ origin.tampers = 1
    /\ pre[1] = 2
    /\ last.kind = "error" /\ last.error = "FormatVersionMismatch"

\* the length stored in bytes 2..5 of b, big-endian, is more than the bytes
\* that follow the header
StoredLengthExceeds(b) ==
    \/ b[3] > 0 \/ b[4] > 0
    \/ b[5] * 256 + b[6] > Len(b) - 6

\* the checks of version and method let b pass
ChecksPass(b) ==
    /\ b[1] = 1
    /\ \/ ~(SecretGiven(packer.secret) /\ MethodGiven(packer.encryptionMethod))
       \/ NameOfCode(b[2]) = packer.encryptionMethod

\* C7: when the checks of version and method pass and the stored length is
\* more than the length of the buffer less 6, unpack fails with
\* InvalidLength; unpack reads no payload past the end of the buffer: it
\* decodes only when the stored length fits, and no read is out of range
InvalidLengthRaised ==
    last.op = "unpack" /\ Len(pre) >= 6
    => /\ (ChecksPass(pre) /\ StoredLengthExceeds(pre))
          => last.kind = "error" /\ last.error = "InvalidLength"
       /\ (last.kind = "value" \/ last.error = "SyntaxError")
          => ~StoredLengthExceeds(pre)
       /\ last.error # "RangeError"

\* a packer with a secret has been given its packed buffer with the last
\* byte of the length changed to 255
InvalidLengthRaisedSeen ==
    /\ SecuredUnpack /\ SamePacker /\ origin.tampers = 1
    /\ ChecksPass(pre) /\ pre[5] = 0 /\ pre[6] = 255
    /\ last.kind = "error" /\ last.error = "InvalidLength"

\* a constructor has been called
Constructed == packer.made \/ packer.error # ""

\* C8: the constructor fails with a configuration error when exactly one of
\* secret and method is given, and with UnsupportedMethod when a secret is
\* given with a method that is not registered; a packer that was made has
\* both or neither, and its method, when given, is registered
ConstructionChecked ==
    /\ Constructed =>
       /\ (SecretGiven(packer.secret) /\ ~MethodGiven(packer.encryptionMethod))
          => ~packer.made /\ packer.error = "MethodRequired"
       /\ (MethodGiven(packer.encryptionMethod) /\ ~SecretGiven(packer.secret))
          => ~packer.made /\ packer.error = "SecretRequired"
       /\ ( /\ SecretGiven(packer.secret) /\ MethodGiven(packer.encryptionMethod)
            /\ packer.encryptionMethod \notin RegisteredNames )
          => ~packer.made /\ packer.error = "UnsupportedMethod"
    /\ packer.made =>
       /\ SecretGiven(packer.secret) <=> MethodGiven(packer.encryptionMethod)
       /\ MethodGiven(packer.encryptionMethod)
          => packer.encryptionMethod \in RegisteredNames

\* the constructor has refused a secret with the method md5
ConstructionCheckedSeen ==
    /\ packer.secret = <<97>> /\ packer.encryptionMethod = "md5"
    /\ ~packer.made /\ packer.error = "UnsupportedMethod"

\* C9: the constructor refuses a method with an empty secret, so that no
\* call of pack or unpack runs the xor or the aes-like strategy with a key
\* of zero bytes
EmptySecretRejected ==
    /\ (Constructed /\ packer.secret = <<>> /\ MethodGiven(packer.encryptionMethod))
       => ~packer.made /\ packer.error = "SecretRequired"
    /\ last.ran \in {"xor", "aes-like"} => last.m > 0

\* the constructor has refused xor with the empty secret
EmptySecretRejectedSeen ==
    /\ packer.secret = <<>> /\ packer.encryptionMethod = "xor"
    /\ ~packer.made /\ packer.error = "SecretRequired"

\* C10: after unpack, whether it returned a value or failed, the caller's
\* buffer holds the bytes it held before the call
CallerBufferKept == last.op = "unpack" => buf = pre

\* unpack has decrypted with caesar, failed to parse the text, and the
\* caller's buffer is as it was
CallerBufferKeptSeen ==
    /\ last.op = "unpack" /\ last.ran = "caesar"
    /\ last.kind = "error" /\ last.error = "SyntaxError"
    /\ buf = pre /\ Len(pre) > 6

\* the entries of the registry, and their codes and names
Entries == {AvailableMethods[i] : i \in 1..Len(AvailableMethods)}
EntryCodes == {e.code : e \in Entries}
EntryNames == {e.name : e \in Entries}

\* C11: the registry has exactly the entries 1 xor, 2 aes-like, 3 caesar;
\* codes and names are each unique and 0 is no code of it; the lookup by
\* name returns the code of a registered name and 0 for any other name, the
\* lookup by code the name of a registered code and null for any other
\* code, and each lookup undoes the other on the entries
RegistryContract ==
    /\ AvailableMethods = << [code |-> 1, name |-> "xor"],
                             [code |-> 2, name |-> "aes-like"],
                             [code |-> 3, name |-> "caesar"] >>
    /\ Cardinality(EntryCodes) = Len(AvailableMethods)
    /\ Cardinality(EntryNames) = Len(AvailableMethods)
    /\ 0 \notin EntryCodes
    /\ last.op = "getEncryptionMethodCode"
       => /\ last.val.v[2] = CodeOfName(last.val.v[1])
          /\ last.val.v[1] \notin RegisteredNames => last.val.v[2] = 0
          /\ last.val.v[1] \in RegisteredNames
             => getEncryptionMethodName(last.val.v[2]) = last.val.v[1]
    /\ last.op = "getEncryptionMethodName"
       => /\ last.val.v[2] = NameOfCode(last.val.v[1])
          /\ last.val.v[1] \notin {1, 2, 3} => last.val.v[2] = NullName
          /\ last.val.v[1] \in {1, 2, 3}
             => getEncryptionMethodCode(last.val.v[2]) = last.val.v[1]

\* the code 2 has been looked up and the name aes-like returned
RegistryContractSeen ==
    /\ last.op = "getEncryptionMethodName"
    /\ last.val = Looked(2, "aes-like")

\* C12: as the documentation of EncryptionMethod has it, the code of
\* aes-like is 3 and the name of code 3 is aes-like, and what
\* encrypt(buffer, 'aes-like') encrypted, decrypt(buffer, 3) with the same
\* secret restores
AesLikeDocumentedAsThree ==
    /\ (last.op = "getEncryptionMethodCode" /\ last.val.v[1] = "aes-like")
       => last.val.v[2] = 3
    /\ (last.op = "getEncryptionMethodName" /\ last.val.v[1] = 3)
       => last.val.v[2] = "aes-like"
    /\ (last.op = "encrypt" /\ last.ran = "aes-like")
       => \A s \in Secrets :
            EncryptionMethod_encrypt(s, META_LENGTH, <<pre>>, 1, "aes-like").heap[1] = buf
            => EncryptionMethod_decrypt(s, META_LENGTH, <<buf>>, 1, 3).heap[1] = pre

\* ---- the strategies called directly (SpecMethods) ----

\* bit i of the byte x
Bit(x, i) == (x \div (2 ^ i)) % 2

\* the last call was made by an instance of the class name
StrategyCalled(name) ==
    last.op \in {"encrypt", "decrypt"} /\ last.ran = name /\ origin.tampers >= 1

\* the call before the last one was made with the same secret
SameSecretTwice ==
    /\ origin.tampers >= 2
    /\ origin.v.v[1] \in {"encrypt", "decrypt"}
    /\ origin.v.v[2] = origin.secret

\* C13: whatever XOR call was made last, encrypt or decrypt, every byte
\* of the array is the byte before the call xor-ed with the byte
\* k[i mod m] of the UTF-8 encoding k of the secret (bit by bit, the three
\* bits sum to an even number); and when the two
\* last calls were XOR calls with the same nonempty secret, the array is
\* again what it was before the first of them
XorInvolution ==
    (StrategyCalled("xor") /\ SecretGiven(origin.secret))
    => /\ Len(buf) = Len(pre)
       /\ LET k == TextEncode(origin.secret)
          IN  \A j \in 1..Len(buf) : \A i \in 0..7 :
                (Bit(buf[j], i) + Bit(pre[j], i)
                   + Bit(k[((j - 1) % Len(k)) + 1], i)) % 2 = 0
       /\ SameSecretTwice => buf = origin.v.v[3]

\* 256 bytes have been encrypted and then decrypted by XOR with one
\* secret, the encrypted bytes were other bytes, and the array is back
XorInvolutionSeen ==
    /\ StrategyCalled("xor") /\ last.op = "decrypt"
    /\ SameSecretTwice /\ origin.v.v[1] = "encrypt"
    /\ origin.secret = <<107, 233>>
    /\ Len(buf) = 256
    /\ pre # buf
    /\ buf = origin.v.v[3]

\* C14: when an AES-like instance has encrypted an array and an AES-like
\* instance over the same secret has then decrypted it, the array is
\* byte for byte what it was before the encryption (arrays of 0 to 300
\* bytes, secrets of 1 to 64 characters)
AesRoundTrip ==
    (StrategyCalled("aes-like") /\ last.op = "decrypt"
        /\ SameSecretTwice /\ origin.v.v[1] = "encrypt")
    => buf = origin.v.v[3]

\* 256 bytes have been encrypted and decrypted by AES-like instances over
\* the secret of 64 characters; the encrypted bytes were other bytes
AesRoundTripSeen ==
    /\ StrategyCalled("aes-like") /\ last.op = "decrypt"
    /\ SameSecretTwice /\ origin.v.v[1] = "encrypt"
    /\ Len(origin.secret) = 64
    /\ Len(buf) = 256
    /\ pre # buf
    /\ buf = origin.v.v[3]
    /\ buf[256] = 255

\* ---- the hash as a polynomial, for reference ----
\* A 32-bit pattern is written here as its four bytes, lowest first; the
\* polynomial c1 * 31^(n-1) + ... + cn * 31^0 of the code units c1 .. cn is
\* computed modulo 2^32 by long multiplication and addition of the bytes.
RefBytes(n) ==
    <<n % 256, (n \div 256) % 256, (n \div 65536) % 256, (n \div 16777216) % 256>>

RefAdd(a, b) ==
    LET t1 == a[1] + b[1]
        t2 == a[2] + b[2] + (t1 \div 256)
        t3 == a[3] + b[3] + (t2 \div 256)
        t4 == a[4] + b[4] + (t3 \div 256)
    IN  <<t1 % 256, t2 % 256, t3 % 256, t4 % 256>>

RefMul(a, b) ==
    LET t1 == a[1] * b[1]
        t2 == a[1] * b[2] + a[2] * b[1] + (t1 \div 256)
        t3 == a[1] * b[3] + a[2] * b[2] + a[3] * b[1] + (t2 \div 256)
        t4 == a[1] * b[4] + a[2] * b[3] + a[3] * b[2] + a[4] * b[1] + (t3 \div 256)
    IN  <<t1 % 256, t2 % 256, t3 % 256, t4 % 256>>

\* 31^k modulo 2^32, by squaring
RECURSIVE RefPow31(_)
RefPow31(k) ==
    IF k = 0 THEN RefBytes(1)
    ELSE CHOOSE r \in {IF k % 2 = 1 THEN RefMul(RefMul(h, h), RefBytes(31))
                                    ELSE RefMul(h, h) :
                         h \in {RefPow31(k \div 2)}} : TRUE

\* the sum of s[i] * 31^(Len(s) - i) for i in lo .. hi, modulo 2^32
RECURSIVE RefPoly(_, _, _)
RefPoly(s, lo, hi) ==
    IF lo > hi THEN RefBytes(0)
    ELSE IF lo = hi THEN RefMul(RefBytes(s[lo]), RefPow31(Len(s) - lo))
    ELSE CHOOSE r \in {RefAdd(x, y) :
                         x \in {RefPoly(s, lo, (lo + hi) \div 2)},
                         y \in {RefPoly(s, ((lo + hi) \div 2) + 1, hi)}} : TRUE

\* the magnitude of the int32 with the pattern d: a pattern with the top bit
\* set stands for d - 2^32, whose magnitude is 2^32 - d
RefMagnitude(d) ==
    IF d[4] >= 128
    THEN RefAdd(<<255 - d[1], 255 - d[2], 255 - d[3], 255 - d[4]>>, RefBytes(1))
    ELSE d

\* the hash of a string by the polynomial, as four bytes
RefHash(s) ==
    CHOOSE r \in {RefMagnitude(d) : d \in {RefPoly(s, 1, Len(s))}} : TRUE

\* the four bytes d modulo 26, with 256, 256^2 and 256^3 being 22, 16 and 14
\* modulo 26
RefMod26(d) == (d[1] + 22 * d[2] + 16 * d[3] + 14 * d[4]) % 26

\* hash(secret) mod 26 by the polynomial
RefShift(s) == CHOOSE r \in {RefMod26(d) : d \in {RefHash(s)}} : TRUE

\* C15: a Caesar call moves every byte by shift = hash(secret) mod 26, a
\* value in 0..25, up on encrypt and down on decrypt, modulo 256; every
\* secret with the same hash mod 26 encrypts the plaintext to the same
\* ciphertext and decrypts that ciphertext to the plaintext; and what an
\* instance over one secret encrypted, an instance over another secret with
\* the same hash mod 26 has decrypted to the plaintext
CaesarByShiftOnly ==
    StrategyCalled("caesar")
    => LET sh == RefShift(origin.secret)
       IN  /\ CaesarShift(origin.secret) = sh
           /\ CaesarShift(origin.secret) \in 0..25
           /\ Len(buf) = Len(pre)
           /\ last.op = "encrypt"
              => /\ \A j \in 1..Len(buf) : buf[j] = (pre[j] + sh) % 256
                 /\ \A s \in MethodSecrets :
                      RefShift(s) = sh
                      => /\ Caesar_encrypt(s, pre) = buf
                         /\ Caesar_decrypt(s, buf) = pre
           /\ last.op = "decrypt"
              => /\ \A j \in 1..Len(buf) : buf[j] = (pre[j] - sh) % 256
                 /\ (origin.tampers >= 2 /\ origin.v.v[1] = "encrypt"
                       /\ RefShift(origin.v.v[2]) = sh)
                    => buf = origin.v.v[3]

\* 256 bytes were encrypted by a Caesar instance over "a" and decrypted by
\* one over "{", and are the plaintext again
CaesarByShiftOnlySeen ==
    /\ StrategyCalled("caesar") /\ last.op = "decrypt"
    /\ origin.tampers >= 2
    /\ origin.v.v[1] = "encrypt" /\ origin.v.v[2] = <<97>>
    /\ origin.secret = <<123>>
    /\ Len(buf) = 256
    /\ pre # buf
    /\ buf = origin.v.v[3]

\* the 32-bit pattern with the four bytes d, as the two halves of the model
WordOfBytes(d) == Word(d[4] * 256 + d[3], d[2] * 256 + d[1])

\* the positions of a string where a code point starts: every position but
\* that of the second half of a surrogate pair
CodePointStarts(s) ==
    {i \in 1..Len(s) :
       ~(i > 1 /\ IsLowSurrogate(s[i]) /\ IsHighSurrogate(s[i - 1]))}

\* the code point that starts at position i
CodePointAt(s, i) ==
    IF IsHighSurrogate(s[i]) /\ i < Len(s) /\ IsLowSurrogate(s[i + 1])
    THEN 65536 + (s[i] - 55296) * 1024 + (s[i + 1] - 56320)
    ELSE s[i]

\* the polynomial over the code points of s that start in lo .. hi
RECURSIVE RefPolyOfCodePoints(_, _, _)
RefPolyOfCodePoints(s, lo, hi) ==
    IF lo > hi THEN RefBytes(0)
    ELSE IF lo = hi
    THEN IF lo \in CodePointStarts(s)
         THEN RefMul(RefBytes(CodePointAt(s, lo)),
                     RefPow31(Cardinality({j \in CodePointStarts(s) : j > lo})))
         ELSE RefBytes(0)
    ELSE CHOOSE r \in {RefAdd(x, y) :
                         x \in {RefPolyOfCodePoints(s, lo, (lo + hi) \div 2)},
                         y \in {RefPolyOfCodePoints(s, ((lo + hi) \div 2) + 1, hi)}} : TRUE

\* Hash.secret has been called with a string
Hashed == last.op = "secret" /\ last.kind = "value"

\* C16: Hash.secret of a string returns the magnitude of the int32 reached
\* by h = (h * 31 + c) mod 2^32 over the UTF-16 code units c of the string
\* in order (a character outside the basic plane counts as its two
\* surrogates); the result is in 0 .. 2^32 - 1 (at most 2^31), and the
\* empty string gives 0
HashOverCodeUnits ==
    Hashed
    => /\ last.val.v[2] = WordOfBytes(RefHash(last.val.v[1]))
       /\ last.val.v[2].hi \in 0..32768 /\ last.val.v[2].lo \in 0..65535
       /\ last.val.v[2].hi = 32768 => last.val.v[2].lo = 0
       /\ last.val.v[1] = <<>> => last.val.v[2] = Word(0, 0)

\* the string of the one character U+1F600, the surrogates D83D DE00, has
\* been hashed to 55357 * 31 + 56832 = 1772899 = 27 * 65536 + 3427
HashOverCodeUnitsSeen ==
    /\ Hashed
    /\ last.val = Looked(<<55357, 56832>>, Word(27, 3427))

\* C16 as stated: the accumulation runs over the code points of the string
HashOverCodePoints ==
    Hashed
    => last.val.v[2]
         = WordOfBytes(RefMagnitude(RefPolyOfCodePoints(last.val.v[1], 1,
                                                        Len(last.val.v[1]))))

\* ---- the dispatcher on what the registry does not know ----

\* an encrypt call with a name that is not in the registry
EncryptUnknown == \E s \in Secrets, m \in Methods \ RegisteredNames : Encrypt(s, m)

\* a decrypt call with a code that is not in the registry, 0 among them
DecryptUnknown == \E s \in Secrets, c \in Codes \ {1, 2, 3} : Decrypt(s, c)

\* C17: a call of encrypt with a name that is not in the registry, and a
\* call of decrypt with a code that is not in the registry (the default 0
\* included), returns without an error, runs no strategy and leaves every
\* byte of the buffer as it was
UnknownMethodIsNoOp ==
    [][(EncryptUnknown \/ DecryptUnknown)
       => /\ buf' = buf
          /\ last'.kind = "value"
          /\ last'.ran = ""]_vars

\* a buffer with bytes behind the header has been through decrypt with a
\* code that is not in the registry: no strategy ran and it is as it was
UnknownMethodIsNoOpSeen ==
    /\ last.op = "decrypt" /\ last.kind = "value" /\ last.ran = ""
    /\ Len(buf) = 10
    /\ buf = <<9, 8, 7, 6, 5, 4, 3, 2, 1, 0>>
    /\ pre = buf

\* ---- pack of what cannot be serialized ----

\* C18: a call of pack with a value that JSON.stringify cannot serialize (a
\* cyclic one) ends in the packing error, and the caller gets no buffer: the
\* call returns no reference, makes no buffer, and what the caller held
\* before is what it holds after
PackOfUnserializable ==
    [][\A v \in Values :
         (StringifyThrows(v) /\ Pack(v))
         => /\ last'.kind = "error"
            /\ last'.error = "PackError"
            /\ last'.ran = ""
            /\ buf' = buf
            /\ origin' = origin
            /\ BinaryPack_pack(packer, <<>>, v).ref = 0
            /\ BinaryPack_pack(packer, <<>>, v).heap = <<>>]_vars

\* a packer with a secret and the method xor was given a cyclic value as
\* the first value to pack: the call failed before the dispatcher was
\* reached and the caller has no buffer
PackOfUnserializableSeen ==
    /\ last.op = "pack" /\ last.kind = "error" /\ last.error = "PackError"
    /\ last.ran = ""
    /\ packer.made /\ packer.encryptionMethod = "xor" /\ SecretGiven(packer.secret)
    /\ ~origin.packed
    /\ buf = <<>>

\* ---- the errors of unpack ----

\* the text unpack parses when the checks let the buffer b pass and the
\* stored length fits: the bytes behind the header, decrypted by the
\* packer's strategy when it has one, cut to the stored length and decoded
TextOf(b) ==
    LET dataPart == SubSeq(b, 7, Len(b))
        plain == IF SecretGiven(packer.secret) /\ MethodGiven(packer.encryptionMethod)
                 THEN InstanceDecrypt(packer.encryptionMethod, packer.secret, dataPart)
                 ELSE dataPart
    IN  TextDecode(SubSeq(plain, 1, b[5] * 256 + b[6]))

\* the four failure conditions of unpack on the buffer b, each as the code
\* comes to it: the version; the method, for a packer with a secret; the
\* stored length; the text
VersionFails(b) == b[1] # 1
MethodFails(b) ==
    /\ ~VersionFails(b)
    /\ SecretGiven(packer.secret) /\ MethodGiven(packer.encryptionMethod)
    /\ NameOfCode(b[2]) # packer.encryptionMethod
LengthFails(b) == ChecksPass(b) /\ StoredLengthExceeds(b)
ParseFails(b) ==
    /\ ChecksPass(b) /\ ~StoredLengthExceeds(b)
    /\ ~JSONParse(TextOf(b)).ok

\* C19: unpack fails with FormatVersionMismatch exactly when the version
\* fails, with MethodMismatch exactly when the method fails, with
\* InvalidLength exactly when the stored length fails and with the error of
\* the parser exactly when the text fails: four different errors, each
\* naming its own condition; and unpack returns a value exactly when none of
\* the four conditions holds
UnpackErrorsDistinct ==
    (last.op = "unpack" /\ Len(pre) >= 6)
    => /\ VersionFails(pre) <=> last.error = "FormatVersionMismatch"
       /\ MethodFails(pre) <=> last.error = "MethodMismatch"
       /\ LengthFails(pre) <=> last.error = "InvalidLength"
       /\ ParseFails(pre) <=> last.error = "SyntaxError"
       /\ (VersionFails(pre) \/ MethodFails(pre) \/ LengthFails(pre) \/ ParseFails(pre))
          <=> last.kind = "error"
       /\ last.kind = "value" <=> last.error = ""
       /\ last.kind \in {"value", "error"}

\* a packer with a secret was given its packed buffer with one byte behind
\* the header changed, and the parser refused the text
UnpackErrorsDistinctSeen ==
    /\ SecuredUnpack /\ SamePacker /\ origin.tampers = 1
    /\ Len(pre) > 6
    /\ ParseFails(pre)
    /\ last.kind = "error" /\ last.error = "SyntaxError"

\* ---- the packer between its calls ----

\* a packer as the constructor makes it from the secret and the method of
\* the packer at hand
FreshPacker == BinaryPack_new(packer.secret, packer.encryptionMethod).packer

\* ---- the textual transport ----

\* C21: base64ToBuffer of the text bufferToBase64 made of a buffer returns,
\* without an error, a buffer with the same bytes, whatever the buffer
\* (the empty one, packed ones of every length modulo 3, ones with a byte
\* changed), the text being four characters for every three bytes begun;
\* and unpack of what came back from the text of a packed buffer, by the
\* packer that packed it, returns the value packed
TransportRoundTrip ==
    [][/\ Base64ToBuffer
          => /\ last'.kind = "value"
             /\ buf' = buf
             /\ Len(last.val.v) = 4 * ((Len(buf) + 2) \div 3)
       /\ ( /\ last.op = "base64ToBuffer" /\ last'.op = "unpack"
            /\ origin.packed /\ origin.tampers = 0 /\ SamePacker
            /\ Unpack )
          => last'.kind = "value" /\ last'.val = origin.v]_vars

\* a buffer packed with a secret, of 7 bytes and so padded with == in the
\* text, has come back from the text with its bytes
TransportRoundTripSeen ==
    /\ last.op = "base64ToBuffer" /\ last.kind = "value"
    /\ origin.packed /\ origin.tampers = 0 /\ SecretGiven(origin.secret)
    /\ Len(buf) = 7
    /\ buf = pre

\* ---- several tasks, one packer ----

\* the outcome of the call pack(v) made alone on a packer fresh from the
\* constructor, as the call record of the task
PackAlone(v) ==
    CHOOSE c \in {Call("pack", IF r.error = "" THEN "value" ELSE "error",
                       r.error, JNull, r.ran, r.m) :
                    r \in {BinaryPack_pack(FreshPacker, <<>>, v)}} : TRUE

\* the outcome of the call unpack(b) made alone, the heap holding b only
UnpackAlone(b) ==
    CHOOSE c \in {Call("unpack", r.out.kind, r.out.error, r.out.val, r.ran, r.m) :
                    r \in {BinaryPack_unpack(FreshPacker, <<b>>, 1)}} : TRUE

\* C22: whatever calls the tasks have made on the one packer and in whatever
\* order, a call of pack or unpack by one task returns what the same call
\* returns alone on a fresh packer (the same error or value, the same bytes
\* in the buffer returned), leaves the task's buffer argument as it was, and
\* changes neither the buffer nor the last result of the other task, nor
\* the packer
TasksDoNotInterfere ==
    [][\A t \in Tasks :
         /\ \A v \in TaskValues :
              TaskPack(t, v)
              => /\ last'[t] = PackAlone(v)
                 /\ last'[t].kind = "value"
                    => buf'[t] = BinaryPack_pack(FreshPacker, <<>>, v).heap[1]
                 /\ last'[t].kind = "error" => buf'[t] = buf[t]
                 /\ buf'[3 - t] = buf[3 - t]
                 /\ last'[3 - t] = last[3 - t] /\ origin'[3 - t] = origin[3 - t]
                 /\ packer' = packer
         /\ TaskUnpack(t)
            => /\ last'[t] = UnpackAlone(buf[t])
               /\ last'[t].kind = "value" /\ last'[t].val = origin[t].v
               /\ buf' = buf
               /\ last'[3 - t] = last[3 - t] /\ origin'[3 - t] = origin[3 - t]
               /\ packer' = packer]_vars

\* on a packer with a secret and the method aes-like, task 1 has unpacked
\* its buffer to the value it packed while task 2 holds another packed
\* buffer and has failed on a later pack
TasksDoNotInterfereSeen ==
    /\ packer.encryptionMethod = "aes-like"
    /\ last[1].op = "unpack" /\ last[1].kind = "value"
    /\ last[1].val = origin[1].v
    /\ origin[2].packed /\ origin[2].v # origin[1].v
    /\ last[2].op = "pack" /\ last[2].error = "PackError"
    /\ Len(buf[1]) > 6 /\ Len(buf[2]) > 6 /\ buf[1] # buf[2]

\* ---- the order of the checks of unpack ----

\* the method code of b is not the code of the method of a packer that has
\* a secret and a method
MethodDiffers(b) ==
    /\ SecretGiven(packer.secret) /\ MethodGiven(packer.encryptionMethod)
    /\ NameOfCode(b[2]) # packer.encryptionMethod

\* C23: unpack checks the version, then the method, then the length: a
\* buffer with a wrong version whose method code differs from the packer's
\* fails with FormatVersionMismatch, and a buffer with the right version
\* whose method code differs from the packer's and whose stored length is
\* too large fails with MethodMismatch, not with InvalidLength
ChecksInOrder ==
    (last.op = "unpack" /\ Len(pre) >= 6)
    => /\ (pre[1] # 1 /\ MethodDiffers(pre))
          => last.kind = "error" /\ last.error = "FormatVersionMismatch"
       /\ (pre[1] = 1 /\ MethodDiffers(pre) /\ StoredLengthExceeds(pre))
          => last.kind = "error" /\ last.error = "MethodMismatch"

\* a packer for another method than the one the buffer was packed with was
\* given the buffer with the right version and the last byte of the length
\* changed to 255, and failed with MethodMismatch
ChecksInOrderSeen ==
    /\ last.op = "unpack" /\ origin.tampers = 1
    /\ Len(pre) >= 6
    /\ pre[1] = 1 /\ pre[6] = 255
    /\ MethodDiffers(pre) /\ StoredLengthExceeds(pre)
    /\ NameOfCode(pre[2]) = origin.encryptionMethod
    /\ last.kind = "error" /\ last.error = "MethodMismatch"

\* ---- every byte by itself ----

\* the call op of an instance of the class name over secret, on data
Applied(name, op, secret, data) ==
    IF op = "encrypt" THEN InstanceEncrypt(name, secret, data)
    ELSE InstanceDecrypt(name, secret, data)

\* an array of i bytes that has x at its last index and 0 before it
Lone(x, i) == <<>> \o [j \in 1..i |-> IF j = i THEN x ELSE 0]

\* the indices at which a byte is compared with the byte computed alone
ProbedIndices(n) ==
    {i \in {1, 2, 3, 4, 5, 6, 64, 65, 128, 255, 256, 257, 299, 300} : i <= n}

\* one pass over the array by the loop of the class name: the only loop of
\* XOR and Caesar, the loop of the given round of AES
LoopOf(name, op, secret, data, round) ==
    CASE name = "xor" -> XOR_loop(SecretBytes(secret), data)
      [] name = "aes-like" /\ op = "encrypt" ->
            AES_encryptLoop(SecretBytes(secret), data, round)
      [] name = "aes-like" /\ op = "decrypt" ->
            AES_decryptLoop(SecretBytes(secret), data, round)
      [] name = "caesar" /\ op = "encrypt" ->
            Caesar_encryptLoop(CaesarShift(secret), data)
      [] name = "caesar" /\ op = "decrypt" ->
            Caesar_decryptLoop(CaesarShift(secret), data)

\* the rounds of a call in the order the code makes them
RoundsOf(name, op) ==
    IF name = "aes-like"
    THEN (IF op = "encrypt" THEN <<0, 1, 2>> ELSE <<2, 1, 0>>)
    ELSE <<0>>

\* the array after the indices in order have been visited one by one in
\* place, each visit storing at its index the byte the loop computes there
\* from the array as it is at that moment
RECURSIVE VisitedInPlace(_, _, _, _, _, _)
VisitedInPlace(name, op, secret, data, round, order) ==
    IF order = <<>> THEN data
    ELSE VisitedInPlace(name, op, secret,
             [data EXCEPT ![Head(order)] =
                 LoopOf(name, op, secret, data, round)[Head(order)]],
             round, Tail(order))

\* the array after the rounds, every round visiting the indices in order
RECURSIVE RoundsInPlace(_, _, _, _, _, _)
RoundsInPlace(name, op, secret, data, rounds, order) ==
    IF rounds = <<>> THEN data
    ELSE RoundsInPlace(name, op, secret,
             VisitedInPlace(name, op, secret, data, Head(rounds), order),
             Tail(rounds), order)

\* three orders in which the indices 1..n are visited: upwards, downwards,
\* and upwards from the middle around the end
VisitOrders(n) ==
    { [i \in 1..n |-> i],
      [i \in 1..n |-> n + 1 - i],
      [i \in 1..n |-> ((i + (n \div 2) - 1) % n) + 1] }

\* C24: after a call of encrypt or decrypt of any of the three classes the
\* array has the length it had, and the byte at an index is the byte the
\* same call leaves at that index of an array that has nothing in common
\* with the given one but the byte at that index (zeros before it, nothing
\* after it): it depends on the byte, the index and the secret only.  For
\* arrays of up to six bytes, visiting the indices of each round one by
\* one in place leaves the same array whether they are visited upwards,
\* downwards or from the middle
BytesIndependent ==
    (\E name \in StrategyClasses : StrategyCalled(name))
    => /\ Len(buf) = Len(pre)
       /\ \A i \in ProbedIndices(Len(pre)) :
            buf[i] = Applied(last.ran, last.op, origin.secret, Lone(pre[i], i))[i]
       /\ Len(pre) <= 6
          => \A o \in VisitOrders(Len(pre)) :
               RoundsInPlace(last.ran, last.op, origin.secret, pre,
                             RoundsOf(last.ran, last.op), <<>> \o o) = buf

\* an AES-like instance has decrypted 256 bytes that are not all the same,
\* and has changed them
BytesIndependentSeen ==
    /\ StrategyCalled("aes-like") /\ last.op = "decrypt"
    /\ Len(pre) = 256 /\ Len(buf) = 256
    /\ pre[1] # pre[2] /\ pre[255] # pre[256]
    /\ buf # pre

\* ---- AES-like beyond 256 bytes ----

\* the indices at which the decrypting loop of round subtracts more than
\* the byte and 256 together
NegativeAt(data, round) ==
    {j \in 1..Len(data) : data[j] - round - (j - 1) + 256 < 0}

\* the array before the encryption and after each of its three rounds
EncryptStages(k, data) ==
    LET e0 == AES_encryptLoop(k, data, 0)
        e1 == AES_encryptLoop(k, e0, 1)
        e2 == AES_encryptLoop(k, e1, 2)
    IN  <<data, e0, e1, e2>>

\* C25: when an AES-like instance has encrypted an array of more than 256
\* bytes and an AES-like instance over the same secret has decrypted it,
\* the array is what it was before the encryption; and in every round, at
\* every index where byte - round - index + 256 is below 0, the remainder
\* of the code is below 0 and the byte the decrypting loop stores is the
\* byte that was there before the encrypting loop of that round
AesRoundTripBeyond256 ==
    (StrategyCalled("aes-like") /\ last.op = "decrypt"
        /\ SameSecretTwice /\ origin.v.v[1] = "encrypt" /\ Len(pre) > 256)
    => /\ buf = origin.v.v[3]
       /\ LET k == SecretBytes(origin.secret)
              E == EncryptStages(k, origin.v.v[3])
          IN  /\ E[4] = pre
              /\ \A round \in 0..(AES_rounds - 1) :
                   LET d == AES_decryptLoop(k, E[round + 2], round)
                   IN  \A j \in NegativeAt(E[round + 2], round) :
                         /\ JsRem(E[round + 2][j] - round - (j - 1) + 256, 256) < 0
                         /\ d[j] = E[round + 1][j]

\* 300 bytes have been encrypted and decrypted by AES-like instances over
\* one secret, the first round of the decryption met an index beyond 256
\* with a difference below 0, and the array is back
AesRoundTripBeyond256Seen ==
    /\ StrategyCalled("aes-like") /\ last.op = "decrypt"
    /\ SameSecretTwice /\ origin.v.v[1] = "encrypt"
    /\ Len(pre) = 300
    /\ \E j \in NegativeAt(pre, 2) : j > 257
    /\ buf # pre
    /\ buf = origin.v.v[3]

\* ---- bytes after the payload ----

\* unpack has just been given what pack returned with further bytes put
\* after it, and nothing else done to it
UnpackedWithTrailingBytes ==
    /\ last.op = "unpack" /\ origin.packed /\ origin.tampers = 1
    /\ Len(pre) > 6 + TextLength(origin.v)

\* C26: bytes that follow a packed buffer are ignored: a packer configured
\* as the one that packed, with no method or with any of the three, unpacks
\* the longer buffer to the value packed, which is what it unpacks the
\* buffer without the further bytes to, and the strategy of its method, when
\* it has one, is the one that decrypted
TrailingBytesIgnored ==
    (UnpackedWithTrailingBytes /\ SamePacker)
    => /\ last.kind = "value" /\ last.val = origin.v
       /\ LET alone == UnpackAlone(SubSeq(pre, 1, 6 + TextLength(origin.v)))
          IN  alone.kind = "value" /\ alone.val = last.val
       /\ packer.encryptionMethod \in RegisteredNames
          => last.ran = packer.encryptionMethod

\* the nested value packed with aes-like has been unpacked from a buffer
\* that had the bytes 255 and 125 after it
TrailingBytesIgnoredSeen ==
    /\ UnpackedWithTrailingBytes /\ SamePacker
    /\ packer.secret = <<107, 233>> /\ packer.encryptionMethod = "aes-like"
    /\ Len(pre) = 6 + TextLength(origin.v) + 2
    /\ pre[Len(pre)] = 125
    /\ last.kind = "value"
    /\ last.val = JObj(<<Prop(<<97>>, JArr(<<JNum(1), JNull>>))>>)

\* ---- a packer without secret and method ----

\* unpack has just been called by a packer with no secret and no method
PlainUnpack ==
    /\ last.op = "unpack"
    /\ ~SecretGiven(packer.secret) /\ ~MethodGiven(packer.encryptionMethod)

\* the values the method code byte is given: the registry's codes, no code,
\* and codes the registry lacks
MethodCodeBytes == {0, 1, 2, 3, 4, 255}

\* the outcome of unpack alone as kind, error and value
OutcomeAlone(b) ==
    CHOOSE o \in {<<c.kind, c.error, c.val, c.ran>> : c \in {UnpackAlone(b)}} : TRUE

\* C27: a packer with no secret and no method never fails with
\* MethodMismatch and runs no strategy; given a buffer of the current
\* version whose stored length n fits, its outcome, error or value, is the
\* outcome for the buffer made of the version, any method code byte, the
\* length and the n payload bytes alone: neither the method code nor any
\* byte after the payload enters
PlainUnpackIgnoresCode ==
    PlainUnpack
    => /\ ~MethodMismatch
       /\ last.ran = ""
       /\ buf = pre
       /\ (Len(pre) >= 6 /\ pre[1] = 1 /\ ~StoredLengthExceeds(pre))
          => \A code \in MethodCodeBytes :
               OutcomeAlone(<<1, code>> \o SubSeq(pre, 3, 6 + pre[5] * 256 + pre[6]))
                 = <<last.kind, last.error, last.val, last.ran>>

\* a packer with no secret and no method has been given what a packer for
\* aes-like packed, with the code 2 at byte 1 and bytes that are not the
\* text: it ran no strategy and failed on the payload as it stands
PlainUnpackIgnoresCodeSeen ==
    /\ PlainUnpack /\ origin.packed /\ origin.tampers = 0
    /\ origin.encryptionMethod = "aes-like"
    /\ pre[2] = 2
    /\ last.ran = ""
    /\ last.kind = "error" /\ last.error = "SyntaxError"

\* ---- buffers shorter than the header ----

\* C28: whatever the packer, unpack of a buffer of fewer than 6 bytes, the
\* empty one included, fails and returns no value, and leaves the buffer as
\* it was.  No byte is read that the buffer lacks: the empty buffer fails on
\* the read of the version, a buffer with another version on the version, a
\* buffer of one byte on the read of the method code, a longer one on the
\* method when the packer has one and the code names another, and else on
\* the read of the length
ShortBufferFails ==
    (last.op = "unpack" /\ Len(pre) < 6)
    => /\ last.kind = "error" /\ last.val = JNull
       /\ buf = pre
       /\ last.error =
            ( IF Len(pre) = 0 THEN "RangeError"
              ELSE IF pre[1] # 1 THEN "FormatVersionMismatch"
              ELSE IF Len(pre) = 1 THEN "RangeError"
              ELSE IF MethodDiffers(pre) THEN "MethodMismatch"
              ELSE "RangeError" )

\* the packer that packed with xor has been given the first five bytes of
\* its buffer: the strategy was run on the empty rest, and the read of the
\* length failed
ShortBufferFailsSeen ==
    /\ last.op = "unpack" /\ origin.tampers = 1 /\ SamePacker
    /\ packer.encryptionMethod = "xor"
    /\ Len(pre) = 5
    /\ last.ran = "xor"
    /\ last.kind = "error" /\ last.error = "RangeError"

====
